---- MODULE Spec2Model ----
(***************************************************************************)
(* Model of the OneDest SwitchBoard routing core (src/lib/router/index.ts): *)
(* dijkstra, validateRouterLayout, mergeEdgeSegments and reconcileSurvey.   *)
(*                                                                          *)
(* Numbers.  Offsets, distances and coordinates are JavaScript numbers.     *)
(* The model works on a grid of 1/Scale block: every offset is an integer   *)
(* number of grid units.  Absent optional fields (undefined) and null are   *)
(* the sentinels Absent, NoNumber, NoSpeed and Null; the optional fields of *)
(* the surveyed edges are None or Some(v).                                  *)
(***************************************************************************)
EXTENDS Integers, Sequences, FiniteSets, TLC

VARIABLES
    \* ---- dijkstra(graph, source, target)
    graph,      \* the Graph argument: [nodes : Seq(id), edges : Seq(EdgeDef)]
    source,     \* the source argument
    target,     \* the target argument
    dist,       \* Map node -> tentative distance
    prev,       \* Map node -> {from, edgeId} | null
    pq,         \* the Set of unsettled nodes, in insertion order
    settled,    \* history: the nodes extracted so far, in order
    dpc,        \* position in dijkstra: "call", "loop", "reconstruct", "returned", "threw", "idle"
    dresult,    \* the value returned by dijkstra
    \* ---- validateRouterLayout(exits)
    exits,      \* the exits argument: Seq([direction, onedest_args])
    rpc,        \* "call", "returned" or "idle"
    rresult,    \* the RouterValidationResult returned
    \* ---- mergeEdgeSegments(totalDistance, existing, incoming)
    totalDistance,  \* the totalDistance argument
    existing,       \* the existing argument: Seq(Segment)
    incoming,       \* the incoming argument: Seq(Segment)
    mpc,            \* "call", "returned" or "idle"
    mresult,        \* the Segment[] returned
    \* ---- reconcileSurvey(graph, survey, thresholdBlocks)
    surveyGraph,     \* graph.edges of the graph argument: Seq(EdgeDef)
    survey,          \* survey.samples: Seq(SurveySample)
    thresholdBlocks, \* the thresholdBlocks argument, in grid units
    edges,           \* the local copy of the edges
    projs,           \* the SampleProj list
    snapped,         \* history: for every sample handled, the id of its edge or None
    byEdge,          \* the Map edgeId -> SampleProj[], in insertion order
    diffs,           \* the diffs list
    candidates,      \* history: the newIntervals of every edge handled, in order
    sresult,         \* the value returned: [updatedEdges, diffs]
    spc,             \* "call", "samples", "edges", "returned" or "idle"
    earlier,         \* history: the values returned by the earlier calls on these arguments
    \* ---- SurveyUploader (src/components/SurveyUploader.tsx)
    diffsState,      \* the diffs of useState: None (null) or Some(list)
    errorState,      \* the error of useState: Absent or a message
    busy,            \* the busy flag
    networkJson,     \* the local networkJson of handleApprove: None before line 103
    prUrlState,      \* the prUrl of useState: Absent or the URL
    posted,          \* history: the payload POSTed to the worker, None before
    pkceState,       \* pkce.state of the approve flow begun last: its number, 0 before
    usedMessage,     \* history: the message whose code was POSTed, None before
    upc,             \* "file", "preview", "authorize", "posting", "done" or "idle"
    \* ---- the worker's handleRequest (src/worker/create_pr_worker.ts)
    request,         \* the Request: [method, pathname, json, missing]
    secrets,         \* which of GITHUB_CLIENT_ID, GITHUB_CLIENT_SECRET are bound
    token,           \* the local token: Absent until the exchange succeeds
    calls,           \* history: the outbound calls made, in order
    response,        \* the Response returned: Null until then
    wpc,             \* the next step of handleRequest, "responded" or "idle"
    \* ---- pointToSegmentDistance2D(p, a, b) and projectPointOntoPolyline(poly, p)
    gpoly,           \* the poly argument, or <<a, b>>
    gpoint,          \* the p argument
    gresult,         \* the value returned
    gpc,             \* "call", "segment", "polyline" or "idle"
    \* ---- the reducer of useGraphEditor (src/hooks/useGraphEditor.ts)
    past,            \* state.past: Seq(EditorGraph)
    present,         \* state.present
    future,          \* state.future: Seq(EditorGraph)
    lastAction,      \* history: the action dispatched last
    before,          \* history: the state that action was dispatched in
    dispatched,      \* history: the number of actions counted so far
    epc              \* "editing" or "idle"

dvars == <<graph, source, target, dist, prev, pq, settled, dpc, dresult>>
rvars == <<exits, rpc, rresult>>
mvars == <<totalDistance, existing, incoming, mpc, mresult>>

svars == <<surveyGraph, survey, thresholdBlocks, edges, projs, snapped, byEdge, diffs, candidates,
           sresult, spc, earlier>>

uvars == <<diffsState, errorState, busy, networkJson, prUrlState, posted, pkceState,
           usedMessage, upc>>

wvars == <<request, secrets, token, calls, response, wpc>>

gvars == <<gpoly, gpoint, gresult, gpc>>

evars == <<past, present, future, lastAction, before, dispatched, epc>>

vars == <<dvars, rvars, mvars, svars, uvars, wvars, gvars, evars>>

\* what the actions of one function leave alone: the state of the others
notDijkstra == <<rvars, mvars, svars, uvars, wvars, gvars, evars>>
notRouter == <<dvars, mvars, svars, uvars, wvars, gvars, evars>>
notMerge == <<dvars, rvars, svars, uvars, wvars, gvars, evars>>
notReconcile == <<dvars, rvars, mvars, uvars, wvars, gvars, evars>>
notUploader == <<dvars, rvars, mvars, wvars, gvars, evars>>
notWorker == <<dvars, rvars, mvars, svars, uvars, gvars, evars>>
notGeometry == <<dvars, rvars, mvars, svars, uvars, wvars, evars>>
notEditor == <<dvars, rvars, mvars, svars, uvars, wvars, gvars>>

----------------------------------------------------------------------------
(* Sentinels and general helpers *)

\* undefined: an optional field that is not present
Absent == "undefined"

\* undefined, for an optional number
NoNumber == 0 - 1

\* null
Null == [null |-> TRUE]

\* Number.POSITIVE_INFINITY, kept apart from every finite number of the model
Infinity == 1000000

SeqToSet(s) == {s[i] : i \in 1..Len(s)}

RECURSIVE SumSeq(_)
SumSeq(s) == IF s = <<>> THEN 0 ELSE Head(s) + SumSeq(Tail(s))

Reverse(s) == [i \in 1..Len(s) |-> s[Len(s) + 1 - i]]

\* All sequences over S of length 0..n
SeqsUpTo(S, n) == UNION {[1..k -> S] : k \in 0..n}

Min2(a, b) == IF a <= b THEN a ELSE b
Max2(a, b) == IF a >= b THEN a ELSE b

----------------------------------------------------------------------------
(* Bounds of the dijkstra inputs *)

\* number of nodes in graph.nodes
NumNodes == 3

\* largest number of edges in graph.edges
MaxEdges == 3

\* largest edge weight
MaxWeight == 2

NodeNames == <<"A", "B", "C", "D", "E">>

\* graph.nodes, in array order
GraphNodes == SubSeq(NodeNames, 1, NumNodes)

\* an id that is in no graph.nodes but may be the from/to of an edge
StrayId == "X"

EndPoints == SeqToSet(GraphNodes) \cup {StrayId}

\* Edge shapes: distance alone, or a routing_weight that overrides the distance
EdgeWeights ==
    {[distance |-> d, routing_weight |-> NoNumber] : d \in 1..MaxWeight}
      \cup {[distance |-> MaxWeight, routing_weight |-> 0]}

\* from/to of an edge: any two nodes (self-loops too), or an edge that leaves
\* the first node for the stray id, or enters the last node from it
EdgeEnds ==
    (SeqToSet(GraphNodes) \X SeqToSet(GraphNodes))
      \cup {<<GraphNodes[1], StrayId>>, <<StrayId, GraphNodes[NumNodes]>>}

EdgeDefs ==
    {[from |-> ft[1], to |-> ft[2], distance |-> w.distance,
      routing_weight |-> w.routing_weight] : ft \in EdgeEnds, w \in EdgeWeights}

EdgeIdNames == <<"e1", "e2", "e3", "e4", "e5">>

\* the i-th edge of a list carries the id EdgeIdNames[i]
WithIds(es) == [i \in 1..Len(es) |->
                  [id |-> EdgeIdNames[i], from |-> es[i].from, to |-> es[i].to,
                   distance |-> es[i].distance, routing_weight |-> es[i].routing_weight]]

\* the graphs over GraphNodes with at most maxEdges edges
Graphs(maxEdges) ==
    {[nodes |-> GraphNodes, edges |-> WithIds(es)] : es \in SeqsUpTo(EdgeDefs, maxEdges)}

----------------------------------------------------------------------------
(* dijkstra: src/lib/router/index.ts 133-200 *)

\* mutant: the routing_weight is ignored
WeightDistanceOnly(e) == IF e.distance # NoNumber THEN e.distance ELSE 0

\* const w = e.routing_weight ?? e.distance ?? 0
Weight(e) ==
    IF e.routing_weight # NoNumber THEN e.routing_weight
    ELSE IF e.distance # NoNumber THEN e.distance
    ELSE 0

\* a < b on numbers that may be Infinity
Less(a, b) == a # Infinity /\ (b = Infinity \/ a < b)

\* a + b on numbers that may be Infinity
Plus(a, b) == IF a = Infinity \/ b = Infinity THEN Infinity ELSE a + b

\* mutant: every id that an edge names counts as a node
NodeSetWithEdgeEnds(g) ==
    SeqToSet(g.nodes) \cup {g.edges[i].from : i \in 1..Len(g.edges)}
                     \cup {g.edges[i].to : i \in 1..Len(g.edges)}

\* const nodes = new Set(graph.nodes.map((n) => n.id))
NodeSet(g) == SeqToSet(g.nodes)

\* mutant: an edge is also followed backwards, from its to to its from
AdjBothWays(g, u) ==
    LET flip(e) == IF e.from = u THEN e ELSE [e EXCEPT !.from = e.to, !.to = e.from]
        touching == SelectSeq(g.edges, LAMBDA e : e.from = u \/ e.to = u)
    IN  [i \in 1..Len(touching) |-> flip(touching[i])]

\* adj.get(u): the arcs { to, weight, edgeId } pushed for the edges that leave
\* u, in graph.edges order (lines 139-145)
Adj(g, u) == SelectSeq(g.edges, LAMBDA e : e.from = u)

\* "extract min": the first node of pq, in iteration order, whose distance is
\* below every distance seen before it; Absent when all are Infinity
RECURSIVE ScanMin(_, _, _, _)
ScanMin(q, d, best, u) ==
    IF q = <<>> THEN u
    ELSE IF Less(d[Head(q)], best) THEN ScanMin(Tail(q), d, d[Head(q)], Head(q))
    ELSE ScanMin(Tail(q), d, best, u)

\* mutant: of the nodes at the least distance, the last of pq is taken
ExtractMinLastFound(q, d) == ScanMin(Reverse(q), d, Infinity, Absent)

ExtractMin(q, d) == ScanMin(q, d, Infinity, Absent)

\* mutant: the extracted node stays in pq
StillQueued(q, u) == q

\* pq.delete(u)   (line 168)
Deleted(q, u) == SelectSeq(q, LAMBDA v : v # u)

\* the relaxation loop over the neighbours of u (lines 171-179)
RECURSIVE Relax(_, _, _, _, _)
Relax(nbrs, u, q, d, p) ==
    IF nbrs = <<>> THEN [dist |-> d, prev |-> p]
    ELSE LET nbr == Head(nbrs)
             alt == Plus(d[u], Weight(nbr))
         IN  IF nbr.to \notin SeqToSet(q) THEN Relax(Tail(nbrs), u, q, d, p)
             ELSE IF Less(alt, d[nbr.to])
                  THEN Relax(Tail(nbrs), u, q,
                             [d EXCEPT ![nbr.to] = alt],
                             [p EXCEPT ![nbr.to] = [from |-> u, edgeId |-> nbr.id]])
                  ELSE Relax(Tail(nbrs), u, q, d, p)

\* mutant: the reconstructed arrays are left in target-first order
KeepOrder(s) == s

\* pathNodes.reverse(), pathEdges.reverse() (lines 197-198)
ReversePath(s) == Reverse(s)

\* the path reconstruction loop (lines 187-196): nodes and edges, target first
RECURSIVE WalkBack(_, _, _, _)
WalkBack(cur, p, ns, es) ==
    IF p[cur] = Null THEN [nodes |-> Append(ns, cur), edges |-> es]
    ELSE WalkBack(p[cur].from, p, Append(ns, cur), Append(es, p[cur].edgeId))

\* the result of a call that has not ended yet
Pending == [pending |-> TRUE]

\* throw new Error(message)
Thrown(message) == [thrown |-> message]

DijkstraIdle ==
    /\ graph = [nodes |-> <<>>, edges |-> <<>>]
    /\ source = Absent /\ target = Absent
    /\ dist = <<>> /\ prev = <<>> /\ pq = <<>> /\ settled = <<>>
    /\ dpc = "idle" /\ dresult = Pending

DijkstraInputs ==
    /\ graph \in Graphs(MaxEdges)
    /\ source \in EndPoints /\ target \in EndPoints
    /\ dist = <<>> /\ prev = <<>> /\ pq = <<>> /\ settled = <<>>
    /\ dpc = "call" /\ dresult = Pending

\* lines 134-136: unknown source or target
DijkstraThrow ==
    /\ dpc = "call"
    /\ source \notin NodeSet(graph) \/ target \notin NodeSet(graph)
    /\ dpc' = "threw"
    /\ dresult' = Thrown(IF source \notin NodeSet(graph) THEN "Source node not found"
                         ELSE "Target node not found")
    /\ UNCHANGED <<graph, source, target, dist, prev, pq, settled>>
    /\ UNCHANGED notDijkstra

\* lines 134-154: both ids known; dist, prev and pq are initialised
DijkstraBegin ==
    /\ dpc = "call"
    /\ source \in NodeSet(graph) /\ target \in NodeSet(graph)
    /\ dpc' = "loop"
    /\ dist' = [n \in NodeSet(graph) |-> IF n = source THEN 0 ELSE Infinity]
    /\ prev' = [n \in NodeSet(graph) |-> Null]
    /\ pq' = graph.nodes      \* the Set iterates in insertion order; ids are distinct
    /\ UNCHANGED <<graph, source, target, settled, dresult>>
    /\ UNCHANGED notDijkstra

\* one pass through while (pq.size) (lines 156-180): the loop ends when pq is
\* empty, when no node of pq has a finite distance, or when target is extracted
DijkstraIterate ==
    /\ dpc = "loop"
    /\ LET u == ExtractMin(pq, dist)
       IN  IF pq = <<>> \/ u = Absent
           THEN /\ dpc' = "reconstruct"
                /\ UNCHANGED <<dist, prev, pq, settled>>
           ELSE LET q == Deleted(pq, u)
                IN  /\ pq' = q
                    /\ settled' = Append(settled, u)
                    /\ IF u = target
                       THEN /\ dpc' = "reconstruct"
                            /\ UNCHANGED <<dist, prev>>
                       ELSE LET r == Relax(Adj(graph, u), u, q, dist, prev)
                            IN  /\ dist' = r.dist
                                /\ prev' = r.prev
                                /\ dpc' = "loop"
    /\ UNCHANGED <<graph, source, target, dresult>>
    /\ UNCHANGED notDijkstra

\* lines 182-199: the unreachable result, or the reconstructed path
DijkstraReturn ==
    /\ dpc = "reconstruct"
    /\ dpc' = "returned"
    /\ dresult' =
         IF dist[target] = Infinity
         THEN [path |-> Null, distance |-> Infinity]
         ELSE LET w == WalkBack(target, prev, <<>>, <<>>)
              IN  [path |-> [nodes |-> ReversePath(w.nodes), edges |-> ReversePath(w.edges)],
                   distance |-> dist[target]]
    /\ UNCHANGED <<graph, source, target, dist, prev, pq, settled>>
    /\ UNCHANGED notDijkstra

----------------------------------------------------------------------------
(* validateRouterLayout: src/lib/router/index.ts 207-227 *)

\* Bounds of the validateRouterLayout inputs
\* largest number of exits
MaxExits == 3

\* largest number of onedest_args of all exits together
MaxArgsTotal == 4

\* the argument strings; a string is the sequence of its characters
ArgStrings == {<<>>, <<"a">>, <<"b">>, <<"a", "a">>, <<"a", "b">>}

DirectionNames == <<"north", "east", "south", "west", "up", "down">>

\* the ways to give n exits k arguments together: the number of each exit
Compositions(n, k) == {l \in [1..n -> 0..k] : SumSeq(l) = k}

\* the arguments of flat dealt to the exits, l[i] of them to exit i
RECURSIVE Deal(_, _)
Deal(flat, l) ==
    IF l = <<>> THEN <<>>
    ELSE <<SubSeq(flat, 1, Head(l))>> \o Deal(SubSeq(flat, Head(l) + 1, Len(flat)), Tail(l))

\* the exits whose arguments are those of flat, l[i] of them in exit i
ExitList(flat, l) ==
    LET as == Deal(flat, l)
    IN  [i \in 1..Len(l) |-> [direction |-> DirectionNames[i], onedest_args |-> as[i]]]

\* argB.startsWith(argA)
StartsWith(argB, argA) ==
    /\ Len(argA) <= Len(argB)
    /\ \A k \in 1..Len(argA) : argB[k] = argA[k]

\* the value returned at line 216
Conflict(exitA, exitB, argA, argB) ==
    [status |-> "CONFLICT_DETECTED",
     reason |-> <<"Argument", argA, "is a prefix of", argB,
                  "on a different exit. Ordered Physical Layout required.">>,
     conflict |-> [argA |-> argA, argB |-> argB, exitA |-> exitA, exitB |-> exitB]]

\* mutant: the two argument loops are nested the other way round
RECURSIVE ScanArgBOuter(_, _, _, _, _)
ScanArgBOuter(ex, i, j, a, b) ==
    IF i > Len(ex) THEN [status |-> "UNORDERED_SAFE"]
    ELSE IF j > Len(ex) THEN ScanArgBOuter(ex, i + 1, 1, 1, 1)
    ELSE IF i = j THEN ScanArgBOuter(ex, i, j + 1, 1, 1)
    ELSE IF b > Len(ex[j].onedest_args) THEN ScanArgBOuter(ex, i, j + 1, 1, 1)
    ELSE IF a > Len(ex[i].onedest_args) THEN ScanArgBOuter(ex, i, j, 1, b + 1)
    ELSE LET argA == ex[i].onedest_args[a]
             argB == ex[j].onedest_args[b]
         IN  IF StartsWith(argB, argA) /\ argA # argB
             THEN Conflict(ex[i], ex[j], argA, argB)
             ELSE ScanArgBOuter(ex, i, j, a + 1, b)

\* mutant: an exit is also compared with itself
RECURSIVE ScanSameExitToo(_, _, _, _, _)
ScanSameExitToo(ex, i, j, a, b) ==
    IF i > Len(ex) THEN [status |-> "UNORDERED_SAFE"]
    ELSE IF j > Len(ex) THEN ScanSameExitToo(ex, i + 1, 1, 1, 1)
    ELSE IF a > Len(ex[i].onedest_args) THEN ScanSameExitToo(ex, i, j + 1, 1, 1)
    ELSE IF b > Len(ex[j].onedest_args) THEN ScanSameExitToo(ex, i, j, a + 1, 1)
    ELSE LET argA == ex[i].onedest_args[a]
             argB == ex[j].onedest_args[b]
         IN  IF StartsWith(argB, argA) /\ argA # argB
             THEN Conflict(ex[i], ex[j], argA, argB)
             ELSE ScanSameExitToo(ex, i, j, a, b + 1)

\* mutant: an exit is compared with the later exits only
RECURSIVE ScanLaterExits(_, _, _, _, _)
ScanLaterExits(ex, i, j, a, b) ==
    IF i > Len(ex) THEN [status |-> "UNORDERED_SAFE"]
    ELSE IF j > Len(ex) THEN ScanLaterExits(ex, i + 1, 1, 1, 1)
    ELSE IF j <= i THEN ScanLaterExits(ex, i, j + 1, 1, 1)
    ELSE IF a > Len(ex[i].onedest_args) THEN ScanLaterExits(ex, i, j + 1, 1, 1)
    ELSE IF b > Len(ex[j].onedest_args) THEN ScanLaterExits(ex, i, j, a + 1, 1)
    ELSE LET argA == ex[i].onedest_args[a]
             argB == ex[j].onedest_args[b]
         IN  IF StartsWith(argB, argA) /\ argA # argB
             THEN Conflict(ex[i], ex[j], argA, argB)
             ELSE ScanLaterExits(ex, i, j, a, b + 1)

\* the four nested loops of lines 208-225, resumed at exits i, j and
\* arguments a, b (1-based)
RECURSIVE Scan(_, _, _, _, _)
Scan(ex, i, j, a, b) ==
    IF i > Len(ex) THEN [status |-> "UNORDERED_SAFE"]
    ELSE IF j > Len(ex) THEN Scan(ex, i + 1, 1, 1, 1)
    ELSE IF i = j THEN Scan(ex, i, j + 1, 1, 1)
    ELSE IF a > Len(ex[i].onedest_args) THEN Scan(ex, i, j + 1, 1, 1)
    ELSE IF b > Len(ex[j].onedest_args) THEN Scan(ex, i, j, a + 1, 1)
    ELSE LET argA == ex[i].onedest_args[a]
             argB == ex[j].onedest_args[b]
         IN  IF StartsWith(argB, argA) /\ argA # argB
             THEN Conflict(ex[i], ex[j], argA, argB)
             ELSE Scan(ex, i, j, a, b + 1)

validateRouterLayout(ex) == Scan(ex, 1, 1, 1, 1)

RouterIdle == exits = <<>> /\ rpc = "idle" /\ rresult = Absent

\* every list of at most MaxExits exits with at most MaxArgsTotal arguments
RouterInputs ==
    /\ \E n \in 0..MaxExits : \E k \in 0..MaxArgsTotal :
       \E flat \in [1..k -> ArgStrings] : \E l \in Compositions(n, k) :
          exits = ExitList(flat, l)
    /\ rpc = "call" /\ rresult = Absent

ValidateRouterLayout ==
    /\ rpc = "call"
    /\ rresult' = validateRouterLayout(exits)
    /\ rpc' = "returned"
    /\ UNCHANGED exits
    /\ UNCHANGED notRouter

----------------------------------------------------------------------------
(* Numbers of the survey code.  Offsets and distances are integers in units *)
(* of 1/Scale block.  Speeds and coverages are exact rationals <<n, d>>,    *)
(* d > 0, in lowest terms.                                                  *)

\* grid units per block
Scale == 4

RECURSIVE Gcd(_, _)
Gcd(a, b) == IF b = 0 THEN a ELSE Gcd(b, a % b)

Abs(x) == IF x < 0 THEN 0 - x ELSE x

\* the rational n/d (d # 0) in lowest terms with a positive denominator
Rat(n, d) ==
    LET g == Gcd(Abs(n), Abs(d))
        sg == IF d < 0 THEN 0 - 1 ELSE 1
    IN  <<(sg * n) \div g, (sg * d) \div g>>

RatInt(k) == <<k, 1>>
RatAdd(x, y) == Rat(x[1] * y[2] + y[1] * x[2], x[2] * y[2])
RatTimesInt(x, k) == Rat(x[1] * k, x[2])
RatOverInt(x, k) == Rat(x[1], x[2] * k)
RatLess(x, y) == x[1] * y[2] < y[1] * x[2]

\* undefined, for the optional avg_speed
NoSpeed == <<0, 0>>

\* function clamp(v, a, b): Math.max(a, Math.min(b, v))   (lines 330-332)
clamp(v, a, b) == Max2(a, Min2(b, v))

\* x <= y + 1e-6.  On the grid (Scale < 10^6) both sides are whole units and
\* the tolerance is below one unit.
LeqEps(x, y) == x <= y

\* x >= y - 1e-6, likewise
GeqEps(x, y) == x >= y

\* function approxEqual(a, b, eps = 1e-6): Math.abs(a - b) <= eps  (lines 414-416)
approxEqual(a, b) == LeqEps(Abs(a - b), 0)

\* function pushSegment(arr, seg): a degenerate segment is not pushed (lines 418-422)
pushSegment(arr, seg) ==
    IF seg.end_offset <= seg.start_offset THEN arr ELSE Append(arr, seg)

----------------------------------------------------------------------------
(* mergeEdgeSegments: src/lib/router/index.ts 349-412 *)

\* mutant: the boundaries are taken as they are, not clamped
BreakpointsUnclamped(total, ex, inc) ==
    {0, total}
      \cup {ex[i].start_offset : i \in 1..Len(ex)}
      \cup {ex[i].end_offset : i \in 1..Len(ex)}
      \cup {inc[i].start_offset : i \in 1..Len(inc)}
      \cup {inc[i].end_offset : i \in 1..Len(inc)}

\* lines 351-361: 0, totalDistance and every clamped boundary
Breakpoints(total, ex, inc) ==
    {0, total}
      \cup {clamp(ex[i].start_offset, 0, total) : i \in 1..Len(ex)}
      \cup {clamp(ex[i].end_offset, 0, total) : i \in 1..Len(ex)}
      \cup {clamp(inc[i].start_offset, 0, total) : i \in 1..Len(inc)}
      \cup {clamp(inc[i].end_offset, 0, total) : i \in 1..Len(inc)}

\* line 362: Array.from(bounds).sort((a, b) => a - b)
RECURSIVE SortAscending(_)
SortAscending(S) ==
    IF S = {} THEN <<>>
    ELSE LET lo == CHOOSE x \in S : \A y \in S : x <= y
         IN  <<lo>> \o SortAscending(S \ {lo})

\* segs.find((s) => s.start_offset <= a + 1e-6 && s.end_offset >= b - 1e-6):
\* the first segment that covers [a, b), or Null (lines 371, 377)
RECURSIVE FindCovering(_, _, _)
FindCovering(segs, a, b) ==
    IF segs = <<>> THEN Null
    ELSE IF LeqEps(Head(segs).start_offset, a) /\ GeqEps(Head(segs).end_offset, b)
         THEN Head(segs)
         ELSE FindCovering(Tail(segs), a, b)

\* mutant: the existing segments are consulted before the incoming ones
PieceExistingFirst(a, b, ex, inc) ==
    LET incomingSeg == FindCovering(inc, a, b)
        existingSeg == FindCovering(ex, a, b)
    IN  IF existingSeg # Null
        THEN [start_offset |-> a, end_offset |-> b, type |-> existingSeg.type,
              avg_speed |-> existingSeg.avg_speed]
        ELSE IF incomingSeg # Null
        THEN [start_offset |-> a, end_offset |-> b, type |-> incomingSeg.type,
              avg_speed |-> incomingSeg.avg_speed]
        ELSE [start_offset |-> a, end_offset |-> b, type |-> "uncoppered",
              avg_speed |-> NoSpeed]

\* mutant: an interval that an incoming and an existing segment of one type
\* cover gets the other type
PieceAlternating(a, b, ex, inc) ==
    LET incomingSeg == FindCovering(inc, a, b)
        existingSeg == FindCovering(ex, a, b)
    IN  IF incomingSeg # Null
        THEN [start_offset |-> a, end_offset |-> b,
              type |-> IF existingSeg # Null /\ existingSeg.type = incomingSeg.type
                       THEN (IF incomingSeg.type = "coppered" THEN "uncoppered"
                             ELSE "coppered")
                       ELSE incomingSeg.type,
              avg_speed |-> incomingSeg.avg_speed]
        ELSE IF existingSeg # Null
        THEN [start_offset |-> a, end_offset |-> b, type |-> existingSeg.type,
              avg_speed |-> existingSeg.avg_speed]
        ELSE [start_offset |-> a, end_offset |-> b, type |-> "uncoppered",
              avg_speed |-> NoSpeed]

\* the segment pushed for the interval [a, b) (lines 370-383): incoming first,
\* then existing, then the uncoppered default
Piece(a, b, ex, inc) ==
    LET incomingSeg == FindCovering(inc, a, b)
        existingSeg == FindCovering(ex, a, b)
    IN  IF incomingSeg # Null
        THEN [start_offset |-> a, end_offset |-> b, type |-> incomingSeg.type,
              avg_speed |-> incomingSeg.avg_speed]
        ELSE IF existingSeg # Null
        THEN [start_offset |-> a, end_offset |-> b, type |-> existingSeg.type,
              avg_speed |-> existingSeg.avg_speed]
        ELSE [start_offset |-> a, end_offset |-> b, type |-> "uncoppered",
              avg_speed |-> NoSpeed]

\* the loop of lines 366-384 from index i (1-based) of sorted
RECURSIVE Pieces(_, _, _, _, _)
Pieces(sorted, i, ex, inc, result) ==
    IF i > Len(sorted) - 1 THEN result
    ELSE LET a == sorted[i]
             b == sorted[i + 1]
         IN  IF b <= a THEN Pieces(sorted, i + 1, ex, inc, result)
             ELSE Pieces(sorted, i + 1, ex, inc, pushSegment(result, Piece(a, b, ex, inc)))

\* mutant: the two speeds are averaged without their lengths
AbsorbUnweighted(last, s) ==
    LET avgA == IF last.avg_speed = NoSpeed THEN RatInt(0) ELSE last.avg_speed
        avgB == IF s.avg_speed = NoSpeed THEN RatInt(0) ELSE s.avg_speed
    IN  [last EXCEPT !.end_offset = s.end_offset,
                     !.avg_speed = RatOverInt(RatAdd(avgA, avgB), 2)]

\* lines 394-402: last extended over s, speeds averaged by length
Absorb(last, s) ==
    LET lenA == last.end_offset - last.start_offset
        lenB == s.end_offset - s.start_offset
        avgA == IF last.avg_speed = NoSpeed THEN RatInt(0) ELSE last.avg_speed
        avgB == IF s.avg_speed = NoSpeed THEN RatInt(0) ELSE s.avg_speed
        denom == lenA + lenB
        num == RatAdd(RatTimesInt(avgA, lenA), RatTimesInt(avgB, lenB))
        newAvg == IF denom > 0 THEN RatOverInt(num, denom) ELSE NoSpeed
    IN  [last EXCEPT !.end_offset = s.end_offset, !.avg_speed = newAvg]

\* mutant: adjacent segments of the same type are left apart
RECURSIVE CoalesceNever(_, _)
CoalesceNever(result, coalesced) ==
    IF result = <<>> THEN coalesced
    ELSE CoalesceNever(Tail(result), Append(coalesced, Head(result)))

\* the loop of lines 387-405
RECURSIVE Coalesce(_, _)
Coalesce(result, coalesced) ==
    IF result = <<>> THEN coalesced
    ELSE LET s == Head(result)
             n == Len(coalesced)
         IN  IF n = 0 THEN Coalesce(Tail(result), <<s>>)
             ELSE IF coalesced[n].type = s.type
                       /\ approxEqual(coalesced[n].end_offset, s.start_offset)
                  THEN Coalesce(Tail(result),
                                [coalesced EXCEPT ![n] = Absorb(coalesced[n], s)])
                  ELSE Coalesce(Tail(result), Append(coalesced, s))

\* lines 408-409: first start forced to 0, last end forced to totalDistance
Stretch(coalesced, total) ==
    LET c1 == IF Len(coalesced) > 0 /\ coalesced[1].start_offset > 0
              THEN [coalesced EXCEPT ![1].start_offset = 0]
              ELSE coalesced
    IN  IF Len(c1) > 0 THEN [c1 EXCEPT ![Len(c1)].end_offset = total] ELSE c1

mergeEdgeSegments(total, ex, inc) ==
    LET sorted == SortAscending(Breakpoints(total, ex, inc))
        result == Pieces(sorted, 1, ex, inc, <<>>)
    IN  Stretch(Coalesce(result, <<>>), total)

\* ---- Bounds of the mergeEdgeSegments inputs

\* largest number of segments in existing and incoming together
MaxSegs == 3

\* the offsets a segment may start or end at
Offsets == {0, 3, 6, 9}

\* the total distances tried: one of the offsets, and one between two of them
Totals == {6, 7}

SegTypes == {"coppered", "uncoppered"}

\* a speed typical of each type (blocks per second)
TypicalSpeed(t) == IF t = "coppered" THEN RatInt(12) ELSE RatInt(8)

\* segments with start_offset < end_offset over the given offsets
ProperSegments(offs, speeds) ==
    {[start_offset |-> ab[1], end_offset |-> ab[2], type |-> t, avg_speed |-> v] :
        ab \in {p \in offs \X offs : p[1] < p[2]}, t \in SegTypes, v \in speeds}

\* an existing segment may lack avg_speed
ExistingSegments ==
    {g \in ProperSegments(Offsets, {NoSpeed, RatInt(8), RatInt(12)}) :
        g.avg_speed \in {NoSpeed, TypicalSpeed(g.type)}}

\* a second coppered speed, so that an average of two speeds is not either
FastSpeed == RatInt(14)

\* an incoming segment carries a speed of its type (lines 297, 301):
\* above 11 when coppered, at most 11 when not
IncomingSegments ==
    {g \in ProperSegments(Offsets, {RatInt(8), RatInt(12), FastSpeed}) :
        \/ g.avg_speed = TypicalSpeed(g.type)
        \/ g.type = "coppered" /\ g.avg_speed = FastSpeed}

MergeIdle ==
    /\ totalDistance = 0 /\ existing = <<>> /\ incoming = <<>>
    /\ mpc = "idle" /\ mresult = <<>>

MergeInputs ==
    /\ totalDistance \in Totals
    /\ \E n \in 0..MaxSegs : \E k \in 0..(MaxSegs - n) :
          /\ existing \in [1..n -> ExistingSegments]
          /\ incoming \in [1..k -> IncomingSegments]
    /\ mpc = "call" /\ mresult = <<>>

MergeEdgeSegments ==
    /\ mpc = "call"
    /\ mresult' = mergeEdgeSegments(totalDistance, existing, incoming)
    /\ mpc' = "returned"
    /\ UNCHANGED <<totalDistance, existing, incoming>>
    /\ UNCHANGED notMerge

----------------------------------------------------------------------------
(* Optional values of the survey code.  An optional field is None when the  *)
(* key is absent (undefined) and Some(v) when it holds v.                   *)

None == <<>>

Some(v) == <<v>>

----------------------------------------------------------------------------
(* Geometry: src/lib/router/index.ts 75-127.                                *)
(* A Vec3 is <<x, y, z>> in grid units.  The polylines of the model run     *)
(* parallel to the X or the Z axis, so the planar length of every segment   *)
(* is a whole number of units.  The distance of a point to a segment may be *)
(* irrational: it is carried as its square, an exact rational, which orders *)
(* distances as Math.hypot does.                                            *)

Sq(n) == n * n

RatSub(x, y) == Rat(x[1] * y[2] - y[1] * x[2], x[2] * y[2])
RatMul(x, y) == Rat(x[1] * y[1], x[2] * y[2])
RatLeq(x, y) == ~RatLess(y, x)
RatMin(x, y) == IF RatLess(y, x) THEN y ELSE x
RatMax(x, y) == IF RatLess(x, y) THEN y ELSE x

\* the value of a rational that is a whole number
Whole(x) == x[1] \div x[2]

\* Math.hypot(dx, dz) where the result is a whole number
hypot(dx, dz) ==
    IF dz = 0 THEN Abs(dx)
    ELSE IF dx = 0 THEN Abs(dz)
    ELSE CHOOSE r \in 0..(Abs(dx) + Abs(dz)) : r * r = dx * dx + dz * dz

\* function dist2D(a, b)   (lines 75-79)
dist2D(a, b) == hypot(a[1] - b[1], a[3] - b[3])

\* mutant: t is not clamped, the distance is that to the whole line
PointToLineDistance2D(p, a, b) ==
    LET vx == b[1] - a[1]
        vz == b[3] - a[3]
        vlen2 == vx * vx + vz * vz
    IN  IF vlen2 = 0
        THEN [distSq |-> RatInt(Sq(p[1] - a[1]) + Sq(p[3] - a[3])), t |-> RatInt(0),
              proj |-> <<RatInt(a[1]), a[2], RatInt(a[3])>>]
        ELSE LET t == Rat((p[1] - a[1]) * vx + (p[3] - a[3]) * vz, vlen2)
                 projx == RatAdd(RatInt(a[1]), RatTimesInt(t, vx))
                 projz == RatAdd(RatInt(a[3]), RatTimesInt(t, vz))
                 dx == RatSub(RatInt(p[1]), projx)
                 dz == RatSub(RatInt(p[3]), projz)
             IN  [distSq |-> RatAdd(RatMul(dx, dx), RatMul(dz, dz)), t |-> t,
                  proj |-> <<projx, a[2], projz>>]

\* function pointToSegmentDistance2D(p, a, b)   (lines 81-102); distSq is dist * dist
pointToSegmentDistance2D(p, a, b) ==
    LET ax == a[1]
        az == a[3]
        bx == b[1]
        bz == b[3]
        px == p[1]
        pz == p[3]
        vx == bx - ax
        vz == bz - az
        wx == px - ax
        wz == pz - az
        vlen2 == vx * vx + vz * vz
    IN  IF vlen2 = 0
        THEN [distSq |-> RatInt(Sq(px - ax) + Sq(pz - az)), t |-> RatInt(0),
              proj |-> <<RatInt(ax), a[2], RatInt(az)>>]
        ELSE LET t == RatMax(RatInt(0), RatMin(RatInt(1), Rat(wx * vx + wz * vz, vlen2)))
                 projx == RatAdd(RatInt(ax), RatTimesInt(t, vx))
                 projz == RatAdd(RatInt(az), RatTimesInt(t, vz))
                 dx == RatSub(RatInt(px), projx)
                 dz == RatSub(RatInt(pz), projz)
             IN  [distSq |-> RatAdd(RatMul(dx, dx), RatMul(dz, dz)), t |-> t,
                  proj |-> <<projx, a[2], projz>>]

\* function polylineLength2D(poly)   (lines 104-108)
RECURSIVE polylineLength2D(_)
polylineLength2D(poly) ==
    IF Len(poly) < 2 THEN 0
    ELSE dist2D(poly[1], poly[2]) + polylineLength2D(Tail(poly))

\* mutant: of equally near segments the last one is kept
RECURSIVE ProjectLoopLastFound(_, _, _, _, _)
ProjectLoopLastFound(poly, p, i, best, offsetAcc) ==
    IF i > Len(poly) THEN best
    ELSE LET a == poly[i - 1]
             b == poly[i]
             segLen == dist2D(a, b)
             r == pointToSegmentDistance2D(p, a, b)
             offset == RatAdd(RatInt(offsetAcc), RatTimesInt(r.t, segLen))
         IN  ProjectLoopLastFound(poly, p, i + 1,
                         IF RatLeq(r.distSq, best.distSq)
                         THEN [distSq |-> r.distSq, segIndex |-> i - 2, t |-> r.t,
                               proj |-> r.proj, offset |-> offset]
                         ELSE best,
                         offsetAcc + segLen)

\* the loop of lines 115-125; i is the 1-based index of b
RECURSIVE ProjectLoop(_, _, _, _, _)
ProjectLoop(poly, p, i, best, offsetAcc) ==
    IF i > Len(poly) THEN best
    ELSE LET a == poly[i - 1]
             b == poly[i]
             segLen == dist2D(a, b)
             r == pointToSegmentDistance2D(p, a, b)
             offset == RatAdd(RatInt(offsetAcc), RatTimesInt(r.t, segLen))
         IN  ProjectLoop(poly, p, i + 1,
                         IF RatLess(r.distSq, best.distSq)
                         THEN [distSq |-> r.distSq, segIndex |-> i - 2, t |-> r.t,
                               proj |-> r.proj, offset |-> offset]
                         ELSE best,
                         offsetAcc + segLen)

\* function projectPointOntoPolyline(poly, p)   (lines 110-127)
projectPointOntoPolyline(poly, p) ==
    IF Len(poly) = 0 THEN Null
    ELSE ProjectLoop(poly, p, 2,
                     [distSq |-> RatInt(Infinity), segIndex |-> 0, t |-> RatInt(0),
                      proj |-> <<RatInt(poly[1][1]), poly[1][2], RatInt(poly[1][3])>>,
                      offset |-> RatInt(0)],
                     0)

\* Bounds of the inputs of the two projections
\* largest X and Z coordinate of a point, in grid units
GeoMax == 3

\* the vertical coordinates (Y) of the points of a polyline
Heights == {0, 2}

GeoPoints == {<<x, y, z>> : x \in 0..GeoMax, y \in Heights, z \in 0..GeoMax}

\* a polyline whose segments run along the X or the Z axis (or have no length)
AxisParallel(poly) ==
    \A i \in 2..Len(poly) : poly[i - 1][1] = poly[i][1] \/ poly[i - 1][3] = poly[i][3]

GeometryIdle ==
    /\ gpoly = <<>> /\ gpoint = <<0, 0, 0>>
    /\ gresult = Pending /\ gpc = "idle"

\* any segment a-b, or a polyline of three points along the axes
GeometryInputs ==
    /\ gpoly \in [1..2 -> GeoPoints] \cup {q \in [1..3 -> GeoPoints] : AxisParallel(q)}
    /\ gpoint \in {<<x, 0, z>> : x \in 0..GeoMax, z \in 0..GeoMax}
    /\ gresult = Pending /\ gpc = "call"

\* a call of pointToSegmentDistance2D(p, a, b)
PointToSegment ==
    /\ gpc = "call" /\ Len(gpoly) = 2
    /\ gpc' = "segment"
    /\ gresult' = pointToSegmentDistance2D(gpoint, gpoly[1], gpoly[2])
    /\ UNCHANGED <<gpoly, gpoint>>
    /\ UNCHANGED notGeometry

\* a call of projectPointOntoPolyline(poly, p)
ProjectOnto ==
    /\ gpc = "call" /\ AxisParallel(gpoly)
    /\ gpc' = "polyline"
    /\ gresult' = projectPointOntoPolyline(gpoly, gpoint)
    /\ UNCHANGED <<gpoly, gpoint>>
    /\ UNCHANGED notGeometry

----------------------------------------------------------------------------
(* reconcileSurvey: src/lib/router/index.ts 238-326 *)

\* thresholdBlocks = 5, the default of the third parameter, in blocks
DefaultThreshold == 5

\* s.speed > 11 is coppered
CopperSpeed == 11

\* line 240: a copy of every edge, a missing id synthesized from from, to and the index
WithSynthesizedIds(es) ==
    [i \in 1..Len(es) |->
        IF es[i].id = None
        THEN [es[i] EXCEPT !.id = Some(es[i].from \o "_" \o es[i].to \o "_" \o ToString(i - 1))]
        ELSE es[i]]

\* line 250: !e.geometry || e.geometry.length < 2
Skipped(e) == e.geometry = None \/ Len(e.geometry[1]) < 2

\* mutant: only a distance below the threshold is accepted
WithinThresholdStrict(pr, th) == RatLess(pr.distSq, RatInt(Sq(th)))

\* line 253: pr.dist <= thresholdBlocks
WithinThreshold(pr, th) == RatLeq(pr.distSq, RatInt(Sq(th)))

\* the loop of lines 249-256 from edge i
RECURSIVE BestEdge(_, _, _, _, _)
BestEdge(es, i, s, th, best) ==
    IF i > Len(es) THEN best
    ELSE IF Skipped(es[i]) THEN BestEdge(es, i + 1, s, th, best)
    ELSE LET pr == projectPointOntoPolyline(es[i].geometry[1], s.coords)
         IN  IF pr = Null THEN BestEdge(es, i + 1, s, th, best)
             ELSE IF WithinThreshold(pr, th)
                       /\ (best = Null \/ RatLess(pr.distSq, best.projRes.distSq))
                  THEN BestEdge(es, i + 1, s, th, [edge |-> es[i], projRes |-> pr])
                  ELSE BestEdge(es, i + 1, s, th, best)

\* edge.distance || polylineLength2D(edge.geometry!)   (line 259)
DistanceOrLength(e) ==
    IF e.distance = NoNumber \/ e.distance = 0
    THEN polylineLength2D(e.geometry[1]) ELSE e.distance

\* edge.distance ?? polylineLength2D(edge.geometry!)   (lines 303, 312, 314)
DistanceElseLength(e) ==
    IF e.distance = NoNumber THEN polylineLength2D(e.geometry[1]) ELSE e.distance

\* lines 258-259: the SampleProj pushed for sample s
SampleProj(best, s) ==
    [edgeId |-> best.edge.id[1],
     offset |-> Max2(0, Min2(Whole(best.projRes.offset), DistanceOrLength(best.edge))),
     state |-> IF s.speed > CopperSpeed THEN "coppered" ELSE "uncoppered",
     speed |-> s.speed]

\* mutant: every projection opens an entry of its own
GroupProjsApart(ps, m) ==
    [k \in 1..Len(ps) |-> [edgeId |-> ps[k].edgeId, samples |-> <<ps[k]>>]]

\* lines 264-268: the Map edgeId -> SampleProj[], in insertion order
RECURSIVE GroupProjs(_, _)
GroupProjs(ps, m) ==
    IF ps = <<>> THEN m
    ELSE LET p == Head(ps)
             at == {i \in 1..Len(m) : m[i].edgeId = p.edgeId}
         IN  IF at = {}
             THEN GroupProjs(Tail(ps), Append(m, [edgeId |-> p.edgeId, samples |-> <<p>>]))
             ELSE LET i == CHOOSE j \in at : TRUE
                  IN  GroupProjs(Tail(ps), [m EXCEPT ![i].samples = Append(@, p)])

\* p put behind every element of sorted whose offset is not larger
RECURSIVE InsertByOffset(_, _)
InsertByOffset(sorted, p) ==
    IF sorted = <<>> THEN <<p>>
    ELSE IF Head(sorted).offset <= p.offset
         THEN <<Head(sorted)>> \o InsertByOffset(Tail(sorted), p)
         ELSE <<p>> \o sorted

\* mutant: the samples stay in the order of the survey
KeepSurveyOrder(samples, sorted) == samples

\* line 275: samples.sort((a, b) => a.offset - b.offset), a stable sort
RECURSIVE SortByOffset(_, _)
SortByOffset(samples, sorted) ==
    IF samples = <<>> THEN sorted
    ELSE SortByOffset(Tail(samples), InsertByOffset(sorted, Head(samples)))

\* function average(arr)   (lines 334-337)
average(arr) == IF Len(arr) = 0 THEN RatInt(0) ELSE Rat(SumSeq(arr), Len(arr))

\* (prevOffset + s.offset) / 2   (line 291); the offsets of the samples are
\* even numbers of units, so the midpoint is a whole number of units
Midpoint(a, b) == (a + b) \div 2

\* the loop of lines 283-298 from sample i, and the last interval of lines 300-301
RECURSIVE Runs(_, _, _, _, _, _)
Runs(samples, i, curState, curStart, speedsAcc, newIntervals) ==
    IF i > Len(samples)
    THEN Append(newIntervals,
                [start_offset |-> curStart, end_offset |-> samples[Len(samples)].offset,
                 type |-> curState, avg_speed |-> average(speedsAcc)])
    ELSE LET s == samples[i]
         IN  IF s.state = curState
             THEN Runs(samples, i + 1, curState, curStart, Append(speedsAcc, s.speed),
                       newIntervals)
             ELSE LET prevOffset == samples[i - 1].offset
                      end == Midpoint(prevOffset, s.offset)
                  IN  Runs(samples, i + 1, s.state, end, <<s.speed>>,
                           Append(newIntervals,
                                  [start_offset |-> curStart, end_offset |-> end,
                                   type |-> curState, avg_speed |-> average(speedsAcc)]))

\* lines 305-307: the interval clamped into [0, distMax]; an empty one is given
\* a length of one block, as far as distMax allows
ClampInterval(seg, distMax) ==
    LET start == clamp(seg.start_offset, 0, distMax)
        end == clamp(seg.end_offset, 0, distMax)
    IN  [seg EXCEPT !.start_offset = start,
                    !.end_offset = IF end <= start THEN Min2(start + Scale, distMax)
                                   ELSE end]

\* lines 277-309: the intervals built from the sorted samples of one edge
NewIntervals(samples, distMax) ==
    IF Len(samples) > 0
    THEN LET runs == Runs(samples, 2, samples[1].state, samples[1].offset,
                          <<samples[1].speed>>, <<>>)
         IN  [k \in 1..Len(runs) |-> ClampInterval(runs[k], distMax)]
    ELSE <<>>

\* mutant: the length of every segment is counted, coppered or not
RECURSIVE CopperLengthOfAll(_, _, _)
CopperLengthOfAll(total, segments, i) ==
    IF i > Len(segments) THEN 0
    ELSE Max2(0, Min2(total, segments[i].end_offset) - Max2(0, segments[i].start_offset))
         + CopperLengthOfAll(total, segments, i + 1)

\* the sum of line 428 over the segments from index i
RECURSIVE CopperLength(_, _, _)
CopperLength(total, segments, i) ==
    IF i > Len(segments) THEN 0
    ELSE (IF segments[i].type = "coppered"
          THEN Max2(0, Min2(total, segments[i].end_offset)
                         - Max2(0, segments[i].start_offset))
          ELSE 0) + CopperLength(total, segments, i + 1)

\* function computeTotalCopperCoverage(totalDistance, segments)   (lines 424-431);
\* the 1 of Math.max(1, totalDistance) is one block
computeTotalCopperCoverage(total, segments) ==
    IF Len(segments) = 0 THEN RatInt(0)
    ELSE RatMax(RatInt(0),
                RatMin(RatInt(1), Rat(CopperLength(total, segments, 1), Max2(Scale, total))))

\* graph.edges.find((oe) => oe.id === e.id || (oe.from === e.from && oe.to === e.to))
\* (line 321), or Null
RECURSIVE FindOriginal(_, _)
FindOriginal(oes, e) ==
    IF oes = <<>> THEN Null
    ELSE IF Head(oes).id = e.id \/ (Head(oes).from = e.from /\ Head(oes).to = e.to)
         THEN Head(oes)
         ELSE FindOriginal(Tail(oes), e)

\* mutant: the original edge is returned where there is one
OriginalOnly(original, e) == IF original = Null THEN e ELSE original

\* { ...(original ?? {}), ...e }   (line 322): a key of e wins, a key that only
\* original has is taken from original
SpreadOver(original, e) ==
    IF original = Null THEN e
    ELSE [e EXCEPT
            !.routing_weight = IF @ = None THEN original.routing_weight ELSE @,
            !.segments = IF @ = None THEN original.segments ELSE @,
            !.total_copper_coverage = IF @ = None THEN original.total_copper_coverage ELSE @,
            !.geometry = IF @ = None THEN original.geometry ELSE @,
            !.external = IF @ = None THEN original.external ELSE @]

ReconcileIdle ==
    /\ surveyGraph = <<>> /\ survey = <<>> /\ thresholdBlocks = 0
    /\ edges = <<>> /\ projs = <<>> /\ snapped = <<>> /\ byEdge = <<>>
    /\ diffs = <<>> /\ candidates = <<>> /\ sresult = Null /\ spc = "idle" /\ earlier = <<>>

\* mutant: the diffs list outlives the call
KeptList(stale) == stale

\* const diffs = [] (line 241): a new list in every call, whatever an earlier
\* call left behind
NewList(stale) == <<>>

\* mutant: the edge written at lines 313-314 is the element of graph.edges itself
GraphWrittenThrough(g, idx, merged, coverage) ==
    [g EXCEPT ![idx].segments = Some(merged), ![idx].total_copper_coverage = Some(coverage)]

\* graph.edges after lines 313-314: the edge written is the copy made at line
\* 240, another object than the element of graph.edges
GraphAfterWrite(g, idx, merged, coverage) == g

\* lines 240-245: the local copies and lists of a call
ReconcileBegin ==
    /\ spc = "call"
    /\ edges' = WithSynthesizedIds(surveyGraph)
    /\ diffs' = NewList(diffs)
    /\ projs' = <<>>
    /\ snapped' = <<>>
    /\ candidates' = <<>>
    /\ spc' = "samples"
    /\ UNCHANGED <<surveyGraph, survey, thresholdBlocks, byEdge, sresult, earlier>>
    /\ UNCHANGED notReconcile

\* one round of the loop of lines 247-261
SnapSample ==
    /\ spc = "samples"
    /\ Len(snapped) < Len(survey)
    /\ LET s == survey[Len(snapped) + 1]
           best == BestEdge(edges, 1, s, thresholdBlocks, Null)
       IN  IF best # Null
           THEN /\ projs' = Append(projs, SampleProj(best, s))
                /\ snapped' = Append(snapped, best.edge.id)
           ELSE /\ projs' = projs
                /\ snapped' = Append(snapped, None)
    /\ UNCHANGED <<surveyGraph, survey, thresholdBlocks, edges, byEdge, diffs, candidates,
                   sresult, spc, earlier>>
    /\ UNCHANGED notReconcile

\* lines 263-268, after the last sample
GroupByEdge ==
    /\ spc = "samples"
    /\ Len(snapped) = Len(survey)
    /\ byEdge' = GroupProjs(projs, <<>>)
    /\ spc' = "edges"
    /\ UNCHANGED <<surveyGraph, survey, thresholdBlocks, edges, projs, snapped, diffs,
                   candidates, sresult, earlier>>
    /\ UNCHANGED notReconcile

\* one round of the loop of lines 270-317
ReconcileEdge ==
    /\ spc = "edges"
    /\ Len(diffs) < Len(byEdge)
    /\ LET k == Len(diffs) + 1
           edgeId == byEdge[k].edgeId
           idx == CHOOSE i \in 1..Len(edges) :
                      /\ edges[i].id = Some(edgeId)
                      /\ \A j \in 1..(i - 1) : edges[j].id # Some(edgeId)
           edge == edges[idx]
           oldSegments == edge.segments
           samples == SortByOffset(byEdge[k].samples, <<>>)
           newIntervals == NewIntervals(samples, DistanceElseLength(edge))
           merged == mergeEdgeSegments(DistanceElseLength(edge),
                                       IF edge.segments = None THEN <<>> ELSE edge.segments[1],
                                       newIntervals)
           coverage == computeTotalCopperCoverage(DistanceElseLength(edge), merged)
       IN  /\ byEdge' = [byEdge EXCEPT ![k].samples = samples]
           /\ edges' = [edges EXCEPT
                          ![idx].segments = Some(merged),
                          ![idx].total_copper_coverage = Some(coverage)]
           /\ surveyGraph' = GraphAfterWrite(surveyGraph, idx, merged, coverage)
           /\ diffs' = Append(diffs, [edgeId |-> edgeId, oldSegments |-> oldSegments,
                                      newSegments |-> merged])
           /\ candidates' = Append(candidates, newIntervals)
    /\ UNCHANGED <<survey, thresholdBlocks, projs, snapped, sresult, spc, earlier>>
    /\ UNCHANGED notReconcile

\* lines 319-325, after the last edge
ReconcileReturn ==
    /\ spc = "edges"
    /\ Len(diffs) = Len(byEdge)
    /\ sresult' = [updatedEdges |->
                      [i \in 1..Len(edges) |->
                          SpreadOver(FindOriginal(surveyGraph, edges[i]), edges[i])],
                   diffs |-> diffs]
    /\ spc' = "returned"
    /\ UNCHANGED <<surveyGraph, survey, thresholdBlocks, edges, projs, snapped, byEdge, diffs,
                   candidates, earlier>>
    /\ UNCHANGED notReconcile

\* largest number of calls of reconcileSurvey on the same arguments
MaxCalls == 2

\* the caller keeps the value returned and calls reconcileSurvey again with the
\* same graph, survey and threshold
ReconcileAgain ==
    /\ spc = "returned"
    /\ Len(earlier) + 1 < MaxCalls
    /\ earlier' = Append(earlier, sresult)
    /\ spc' = "call"
    /\ UNCHANGED <<surveyGraph, survey, thresholdBlocks, edges, projs, snapped, byEdge, diffs,
                   candidates, sresult>>
    /\ UNCHANGED notReconcile

\* the caller puts the updatedEdges returned in the place of the edges of the
\* graph and calls reconcileSurvey again with the same survey and threshold
ReconcileReapplied ==
    /\ spc = "returned"
    /\ Len(earlier) + 1 < MaxCalls
    /\ earlier' = Append(earlier, sresult)
    /\ surveyGraph' = sresult.updatedEdges
    /\ spc' = "call"
    /\ UNCHANGED <<survey, thresholdBlocks, edges, projs, snapped, byEdge, diffs, candidates,
                   sresult>>
    /\ UNCHANGED notReconcile

\* ---- Bounds of the reconcileSurvey inputs

\* largest number of samples of a survey
MaxSamples == 3

\* k blocks, in grid units
Blocks(k) == k * Scale

\* a straight line of 8 blocks along X
LineA == <<<<0, Blocks(64), 0>>, <<Blocks(8), Blocks(64), 0>>>>

\* the same line two thresholds further in Z
LineB ==
    <<<<0, Blocks(64), Blocks(2 * DefaultThreshold)>>,
      <<Blocks(8), Blocks(64), Blocks(2 * DefaultThreshold)>>>>

\* 4 blocks along X, then 4 blocks along Z, climbing
Ell == <<<<0, Blocks(64), 0>>, <<Blocks(4), Blocks(64), 0>>, <<Blocks(4), Blocks(70), Blocks(4)>>>>

\* a geometry of one point
OnePoint == <<<<0, Blocks(64), 0>>>>

\* segments as a file may hold them: in order, out of range, or inverted
StoredSegments ==
    {[start_offset |-> Blocks(ab[1]), end_offset |-> Blocks(ab[2]), type |-> t,
      avg_speed |-> IF t = "coppered" THEN RatInt(12) ELSE NoSpeed] :
        ab \in {<<0, 3>>, <<3, 8>>, <<3, 6>>, <<6, 12>>, <<8, 3>>}, t \in SegTypes}

\* the distances of the surveyed edge: the length of its geometry, shorter than
\* it, and half a block
EdgeDistances == {Blocks(8), Blocks(6), Scale \div 2}

SurveyEdge(id, to, distance, segments, geometry) ==
    [id |-> id, from |-> "A", to |-> to, distance |-> distance, routing_weight |-> None,
     segments |-> segments, total_copper_coverage |-> None, geometry |-> geometry,
     external |-> None]

SamplesAt(xs, zs) ==
    {[coords |-> <<Blocks(x), Blocks(64), Blocks(z)>>, speed |-> v] :
        x \in xs, z \in zs, v \in {CopperSpeed, CopperSpeed + 1}}

\* one edge with any stored segments, surveyed along its line and past its end
OneEdgeInputs ==
    /\ \E d \in EdgeDistances :
       \E segs \in {None} \cup {Some(l) : l \in SeqsUpTo(StoredSegments, 2)} :
          surveyGraph = <<SurveyEdge(Some("e1"), "B", d, segs, Some(LineA))>>
    /\ survey \in SeqsUpTo(SamplesAt({2, 6, 10}, {0}), MaxSamples)

\* two edges, with and without ids and geometry, surveyed beside their lines
TwoEdgeInputs ==
    /\ \E id1 \in {None, Some("e1")} :
       \E geo1 \in {None, Some(OnePoint), Some(LineA), Some(Ell)} :
       \E segs1 \in {None, Some(<<[start_offset |-> 0, end_offset |-> Blocks(8),
                                   type |-> "coppered", avg_speed |-> RatInt(12)]>>)} :
       \E id2 \in {None, Some("e2")} :
       \E to2 \in {"B", "C"} :
       \E geo2 \in {None, Some(LineA), Some(LineB)} :
          surveyGraph = <<SurveyEdge(id1, "B", Blocks(8), segs1, geo1),
                          SurveyEdge(id2, to2, Blocks(8), None, geo2)>>
    /\ survey \in SeqsUpTo(SamplesAt({2, 6}, {0 - 6, 0, DefaultThreshold, 6}), MaxSamples - 1)

\* the arguments of the repeated calls: one edge with any stored segments, or
\* two edges that both have a line, and up to two samples
RecallInputs ==
    /\ \/ /\ \E d \in EdgeDistances :
             \E segs \in {None} \cup {Some(l) : l \in SeqsUpTo(StoredSegments, 2)} :
                surveyGraph = <<SurveyEdge(Some("e1"), "B", d, segs, Some(LineA))>>
          /\ survey \in SeqsUpTo(SamplesAt({2, 6, 10}, {0}), 2)
       \/ /\ \E id1 \in {None, Some("e1")} :
             \E geo1 \in {Some(LineA), Some(Ell)} :
             \E segs1 \in {None, Some(<<[start_offset |-> 0, end_offset |-> Blocks(8),
                                         type |-> "coppered", avg_speed |-> RatInt(12)]>>)} :
             \E id2 \in {None, Some("e2")} :
             \E to2 \in {"B", "C"} :
             \E geo2 \in {Some(LineA), Some(LineB)} :
                surveyGraph = <<SurveyEdge(id1, "B", Blocks(8), segs1, geo1),
                                SurveyEdge(id2, to2, Blocks(8), None, geo2)>>
          /\ survey \in SeqsUpTo(SamplesAt({2, 6}, {0, DefaultThreshold}), 2)
    /\ thresholdBlocks = Blocks(DefaultThreshold)
    /\ edges = <<>> /\ projs = <<>> /\ snapped = <<>> /\ byEdge = <<>>
    /\ diffs = <<>> /\ candidates = <<>> /\ sresult = Null /\ spc = "call" /\ earlier = <<>>

ReconcileInputs ==
    /\ OneEdgeInputs \/ TwoEdgeInputs
    /\ thresholdBlocks = Blocks(DefaultThreshold)
    /\ edges = <<>> /\ projs = <<>> /\ snapped = <<>> /\ byEdge = <<>>
    /\ diffs = <<>> /\ candidates = <<>> /\ sresult = Null /\ spc = "call" /\ earlier = <<>>

----------------------------------------------------------------------------
(* SurveyUploader: src/components/SurveyUploader.tsx.                       *)
(* The graph prop is surveyGraph and the parsed report is survey, so that   *)
(* the call of line 77 is the reconcileSurvey modelled above.  A JSON text  *)
(* is carried as the value it parses to: keys that are undefined stay       *)
(* absent (None, NoSpeed), as JSON.stringify leaves them out.               *)

\* JSON.stringify(graph, null, 2) (line 103), the edges of the graph
JSONStringify(graphEdges) == [edges |-> graphEdges]

\* mutant: the network is built from the edges reconcileSurvey returned
NetworkOfUpdatedEdges(graphEdges, updatedEdges) == JSONStringify(updatedEdges)

\* line 103: the network to commit is built from the graph prop; the
\* updatedEdges of line 77 are not kept
NetworkJson(graphEdges, updatedEdges) == JSONStringify(graphEdges)

\* what the user picks in the file input: nothing, a text that is not JSON,
\* or a survey report
Files == {"none", "not json", "report"}

\* how lines 106-126 end: an auth url that is missing, a blocked popup, a
\* message without code, a missing code_verifier, or a code
AuthOutcomes == {"no auth url", "popup blocked", "no code", "no verifier", "code"}

\* OAuthInitiation, line 155 of src/lib/snapping.ts: a fresh random state for
\* every flow, modelled as the number of the flow
FreshState(flowsBefore) == flowsBefore + 1

\* largest number of approve flows begun after one upload
MaxFlows == 2

\* OAuthCallback (src/unnamed/part_007 7-13): the message posted to the opener
\* for the code and state of the callback URL, if there is a code
OAuthCallback(code, state) ==
    IF code = None THEN None
    ELSE Some([type |-> "onedest_oauth", code |-> code, state |-> state])

\* the messages of type onedest_oauth that onMessage may get while a flow
\* waits: those of the callback page for any code and state of its URL, the
\* state missing, of no flow (0) or of a flow begun so far, and one from
\* another window that carries no code
OAuthMessages ==
    {OAuthCallback(Some("code"), st)[1] : st \in {None} \cup {Some(k) : k \in 0..MaxFlows}}
      \cup {[type |-> "onedest_oauth", code |-> None, state |-> None]}

AuthError(outcome) ==
    CASE outcome = "no auth url" -> "Failed to build auth url"
      [] outcome = "popup blocked" -> "Popup blocked"
      [] outcome = "no code" -> "No code returned from OAuth"
      [] outcome = "no verifier" -> "Missing PKCE code_verifier (was it stored?)"

\* the payload of lines 129-141
Payload(fileContent, count) ==
    [code |-> "code", code_verifier |-> "verifier",
     owner |-> "CreepilyCreeper", repo |-> "OneDest-SwitchBoard",
     baseBranch |-> "main", newBranch |-> "onedest-update",
     filePath |-> "onedest-network.json",
     fileContent |-> fileContent,
     commitMessage |-> "Bulk update from SwitchBoard",
     prTitle |-> "Bulk network.json updates (SwitchBoard)",
     prBody |-> count]

UploaderIdle ==
    /\ diffsState = None /\ errorState = Absent /\ busy = FALSE
    /\ networkJson = None /\ prUrlState = Absent /\ posted = None
    /\ pkceState = 0 /\ usedMessage = None /\ upc = "idle"

\* the component is mounted with a graph, and the user has a report at hand
UploaderInputs ==
    /\ RecallInputs
    /\ diffsState = None /\ errorState = Absent /\ busy = FALSE
    /\ networkJson = None /\ prUrlState = Absent /\ posted = None
    /\ pkceState = 0 /\ usedMessage = None /\ upc = "mounted"

\* handleFile up to the call of reconcileSurvey (lines 67-77)
HandleFile ==
    /\ upc = "mounted"
    /\ \E file \in Files :
          /\ diffsState' = None /\ prUrlState' = Absent
          /\ errorState' = IF file = "not json" THEN "Unexpected token" ELSE Absent
          /\ upc' = IF file = "report" THEN "file" ELSE "shown"
    /\ UNCHANGED <<busy, networkJson, posted, pkceState, usedMessage>>
    /\ UNCHANGED svars
    /\ UNCHANGED notUploader

\* reconcileSurvey returns into line 77: updatedEdges is dropped, diffs kept
HandleFileReturn ==
    /\ upc = "file" /\ spc = "returned"
    /\ diffsState' = Some(sresult.diffs)
    /\ upc' = "preview"
    /\ UNCHANGED <<errorState, busy, networkJson, prUrlState, posted, pkceState, usedMessage>>
    /\ UNCHANGED svars
    /\ UNCHANGED notUploader

\* handleApprove up to its first await (lines 93-110)
HandleApprove ==
    /\ upc = "preview" /\ ~busy
    /\ prUrlState' = Absent
    /\ IF diffsState = None \/ Len(diffsState[1]) = 0
       THEN /\ errorState' = "No diffs to apply."
            /\ UNCHANGED <<busy, networkJson, pkceState, upc>>
       ELSE /\ pkceState < MaxFlows
            /\ errorState' = Absent
            /\ busy' = TRUE
            /\ networkJson' = Some(NetworkJson(surveyGraph, sresult.updatedEdges))
            /\ pkceState' = FreshState(pkceState)
            /\ upc' = "authorize"
    /\ UNCHANGED <<diffsState, posted, usedMessage>>
    /\ UNCHANGED svars
    /\ UNCHANGED notUploader

\* mutant: the flow goes on with a message that has no code
AnyMessageTaken(msg, state) == msg.type = "onedest_oauth"

\* lines 48-51 and 121-122: onMessage hands every message of type
\* onedest_oauth to the waiting flow, which goes on if the message has a code;
\* pkce.state is not looked at
MessageTaken(msg, state) == msg.type = "onedest_oauth" /\ msg.code # None

\* lines 112-149: the authorization, then the POST of the payload; an error
\* thrown on the way is caught at line 158
Authorize ==
    /\ upc = "authorize"
    /\ \E outcome \in AuthOutcomes, msg \in OAuthMessages :
          /\ (outcome \in {"no auth url", "popup blocked"}) => msg.state = None /\ msg.code = None
          /\ (outcome = "no code") <=> (outcome \notin {"no auth url", "popup blocked"}
                                          /\ ~MessageTaken(msg, pkceState))
          /\ IF outcome = "code"
             THEN /\ posted' = Some(Payload(networkJson[1], Len(diffsState[1])))
                  /\ usedMessage' = Some(msg)
                  /\ upc' = "posting"
                  /\ UNCHANGED <<errorState, busy>>
             ELSE /\ errorState' = AuthError(outcome)
                  /\ busy' = FALSE
                  /\ upc' = "preview"
                  /\ UNCHANGED <<posted, usedMessage>>
    /\ UNCHANGED <<diffsState, networkJson, prUrlState, pkceState>>
    /\ UNCHANGED svars
    /\ UNCHANGED notUploader

\* lines 151-165: the worker's answer
WorkerAnswers ==
    /\ upc = "posting"
    /\ \E ok \in BOOLEAN :
          IF ok
          THEN /\ prUrlState' = "https://github.com/pr" /\ UNCHANGED errorState
          ELSE /\ errorState' = "Worker error" /\ UNCHANGED prUrlState
    /\ busy' = FALSE
    /\ upc' = "approved"
    /\ UNCHANGED <<diffsState, networkJson, posted, pkceState, usedMessage>>
    /\ UNCHANGED svars
    /\ UNCHANGED notUploader

\* the Reset button (line 207)
ResetPreview ==
    /\ upc \in {"preview", "approved"}
    /\ diffsState' = None /\ prUrlState' = Absent
    /\ upc' = "shown"
    /\ UNCHANGED <<errorState, busy, networkJson, posted, pkceState, usedMessage>>
    /\ UNCHANGED svars
    /\ UNCHANGED notUploader

----------------------------------------------------------------------------
(* The worker: src/worker/create_pr_worker.ts, handleRequest (36-158).      *)
(* A Response is [status, body, headers].  A body is [text, parts]: text    *)
(* names the fixed wording and parts is the set of values written into it.  *)
(* The values GitHub answers with are names of their own; the access token  *)
(* and the client secret are AccessToken and ClientSecret.                  *)

AccessToken == "gho_access_token"

ClientSecret == "client_secret"

\* line 60
required ==
    <<"code", "code_verifier", "owner", "repo", "baseBranch", "newBranch",
      "filePath", "fileContent", "commitMessage", "prTitle">>

\* most keys a request body may lack
MaxMissing == 2

Methods == {"GET", "POST", "PUT"}

Pathnames == {"/", "/health", "/create-pr", "/api/create-pr", "/other"}

JsonHeaders == {"Content-Type: application/json"}

Respond(status, text, parts, headers) ==
    [status |-> status, body |-> [text |-> text, parts |-> parts], headers |-> headers]

\* line 61: the first required key the body lacks, or Absent
FirstMissing(missing) ==
    IF \E i \in 1..Len(required) : required[i] \in missing
    THEN required[CHOOSE i \in 1..Len(required) :
                     /\ required[i] \in missing
                     /\ \A j \in 1..(i - 1) : required[j] \notin missing]
    ELSE Absent

\* String(err) of line 156 for what fetch, json() or btoa throws
ErrorTexts == {"TypeError: fetch failed", "SyntaxError: Unexpected token"}

\* the text of a GitHub answer that is not ok
GitHubTexts == {"Not Found", "Bad credentials"}

WorkerIdle ==
    /\ request = Null /\ secrets = {} /\ token = Absent /\ calls = <<>>
    /\ response = Null /\ wpc = "idle"

WorkerInputs ==
    /\ \E method \in Methods : \E pathname \in Pathnames : \E json \in BOOLEAN :
       \E missing \in {m \in SUBSET SeqToSet(required) : Cardinality(m) <= MaxMissing} :
          request = [method |-> method, pathname |-> pathname, json |-> json,
                     missing |-> missing]
    /\ secrets \in SUBSET {"GITHUB_CLIENT_ID", "GITHUB_CLIENT_SECRET"}
    /\ token = Absent /\ calls = <<>> /\ response = Null /\ wpc = "request"

\* s.endsWith("/create-pr") for the pathnames of the model (line 51)
EndsWithCreatePr(pathname) == pathname \in {"/create-pr", "/api/create-pr"}

\* the response of lines 37-65, or Null when the request passes them
EarlyResponse(req, env) ==
    IF req.method = "GET"
    THEN IF req.pathname = "/"
         THEN Respond(200, "status ok, service", {}, JsonHeaders)
         ELSE IF req.pathname = "/health"
         THEN Respond(200, "status ok", {}, JsonHeaders)
         ELSE Respond(405, "Method Not Allowed", {}, {})
    ELSE IF req.method # "POST" THEN Respond(405, "Method Not Allowed", {}, {})
    ELSE IF ~EndsWithCreatePr(req.pathname) THEN Respond(404, "Not Found", {}, {})
    ELSE IF ~req.json THEN Respond(400, "Invalid JSON", {}, {})
    ELSE IF FirstMissing(req.missing) # Absent
    THEN Respond(400, "Missing", {FirstMissing(req.missing)}, {})
    ELSE IF env # {"GITHUB_CLIENT_ID", "GITHUB_CLIENT_SECRET"}
    THEN Respond(500, "Server misconfiguration: missing GitHub secrets", {}, {})
    ELSE Null

\* lines 155-157
Caught(err) == Respond(500, "error", {err}, {})

\* lines 36-65
HandleRequest ==
    /\ wpc = "request"
    /\ IF EarlyResponse(request, secrets) # Null
       THEN response' = EarlyResponse(request, secrets) /\ wpc' = "responded"
       ELSE response' = Null /\ wpc' = "exchange"
    /\ UNCHANGED <<request, secrets, token, calls>>
    /\ UNCHANGED notWorker

\* mutant: the token is handed back with the PR URL
SuccessPartsWithToken(htmlUrl, accessToken) == {htmlUrl, accessToken}

\* what is written into the body of the success response (line 154)
SuccessParts(htmlUrl, accessToken) == {htmlUrl}

\* an outbound call, as the history keeps it: the step, how it was answered
\* and, for the creation of the branch, with which status
Call(step, answer, status) == [step |-> step, answer |-> answer, status |-> status]

\* the answers of GitHub to the token exchange: fetch throws, a text that is
\* not JSON, a JSON without access_token, a JSON with it
TokenAnswers == {"throws", "not json", "error", "token"}

\* 1) lines 68-82
ExchangeToken ==
    /\ wpc = "exchange"
    /\ \E answer \in TokenAnswers :
          /\ calls' = Append(calls, Call("exchange", answer, NoNumber))
          /\ CASE answer = "token" ->
                   token' = AccessToken /\ response' = Null /\ wpc' = "base ref"
              [] answer = "error" ->
                   /\ response' = Respond(500, "token_exchange_failed",
                                          {"bad_verification_code"}, {})
                   /\ wpc' = "responded" /\ UNCHANGED token
              [] OTHER ->
                   /\ \E err \in ErrorTexts : response' = Caught(err)
                   /\ wpc' = "responded" /\ UNCHANGED token
    /\ UNCHANGED <<request, secrets>>
    /\ UNCHANGED notWorker

\* the answers to the read of the base ref: fetch throws, not ok, ok with a
\* text that is not JSON, ok without object.sha, ok with it
RefAnswers == {"throws", "not ok", "not json", "no sha", "sha"}

\* lines 88-96
ReadBaseRef ==
    /\ wpc = "base ref"
    /\ \E answer \in RefAnswers :
          /\ calls' = Append(calls, Call("base ref", answer, NoNumber))
          /\ CASE answer = "sha" -> response' = Null /\ wpc' = "branch"
              [] answer = "no sha" ->
                   /\ response' = Respond(500, "Unable to resolve base branch commit",
                                          {}, {})
                   /\ wpc' = "responded"
              [] answer = "not ok" ->
                   /\ \E txt \in GitHubTexts :
                         response' = Respond(500, "Failed to get base branch", {txt}, {})
                   /\ wpc' = "responded"
              [] OTHER ->
                   /\ \E err \in ErrorTexts : response' = Caught(err)
                   /\ wpc' = "responded"
    /\ UNCHANGED <<request, secrets, token>>
    /\ UNCHANGED notWorker

\* the statuses GitHub answers the creation of the ref with
BranchStatuses == {200, 201, 403, 422}

\* mutant: every status is taken for a created branch
BranchAnswered(status) == TRUE

\* line 104: 201, or 422 for a ref that exists already
BranchCreated(status) == ~(status # 201 /\ status # 422)

\* lines 98-108
CreateBranch ==
    /\ wpc = "branch"
    /\ \/ /\ calls' = Append(calls, Call("branch", "throws", NoNumber))
          /\ \E err \in ErrorTexts : response' = Caught(err)
          /\ wpc' = "responded"
       \/ \E status \in BranchStatuses :
             /\ calls' = Append(calls, Call("branch", "status", status))
             /\ IF BranchCreated(status)
                THEN response' = Null /\ wpc' = "file"
                ELSE /\ \E txt \in GitHubTexts :
                           response' = Respond(500, "Failed to create branch", {txt}, {})
                     /\ wpc' = "responded"
    /\ UNCHANGED <<request, secrets, token>>
    /\ UNCHANGED notWorker

\* the answers to the look for the file on the new branch: fetch throws,
\* not ok, ok
GetAnswers == {"throws", "not ok", "ok"}

\* lines 110-119: whatever comes of the look, the handler goes on
CheckFile ==
    /\ wpc = "file"
    /\ \E answer \in GetAnswers :
          calls' = Append(calls, Call("file", answer, NoNumber))
    /\ wpc' = "commit"
    /\ UNCHANGED <<request, secrets, token, response>>
    /\ UNCHANGED notWorker

\* the answers to the PUT of the file: fetch throws, not ok, ok
PutAnswers == {"throws", "not ok", "ok"}

\* lines 121-136; btoa of line 122 throws on a character above 255, before
\* the PUT is sent
CommitFile ==
    /\ wpc = "commit"
    /\ \/ /\ response' = Caught("InvalidCharacterError")
          /\ wpc' = "responded" /\ UNCHANGED calls
       \/ \E answer \in PutAnswers :
             /\ calls' = Append(calls, Call("commit", answer, NoNumber))
             /\ CASE answer = "ok" -> response' = Null /\ wpc' = "pull request"
                  [] answer = "not ok" ->
                       /\ \E txt \in GitHubTexts :
                             response' = Respond(500, "Failed to create/update file",
                                                 {txt}, {})
                       /\ wpc' = "responded"
                  [] OTHER ->
                       /\ \E err \in ErrorTexts : response' = Caught(err)
                       /\ wpc' = "responded"
    /\ UNCHANGED <<request, secrets, token>>
    /\ UNCHANGED notWorker

\* the answers to the POST of the pull request: fetch throws, not ok, ok
\* with a text that is not JSON, ok
PullAnswers == {"throws", "not ok", "not json", "ok"}

\* prJson.html_url
PullRequestUrls == {"https://github.com/pull/1"}

\* 4) lines 138-154
OpenPullRequest ==
    /\ wpc = "pull request"
    /\ \E answer \in PullAnswers :
          /\ calls' = Append(calls, Call("pull request", answer, NoNumber))
          /\ CASE answer = "ok" ->
                   \E htmlUrl \in PullRequestUrls :
                      response' = Respond(200, "prUrl", SuccessParts(htmlUrl, token),
                                          JsonHeaders)
              [] answer = "not ok" ->
                   \E txt \in GitHubTexts :
                      response' = Respond(500, "Failed to create PR", {txt}, {})
              [] OTHER -> \E err \in ErrorTexts : response' = Caught(err)
    /\ wpc' = "responded"
    /\ UNCHANGED <<request, secrets, token>>
    /\ UNCHANGED notWorker

----------------------------------------------------------------------------
(* The reducer of useGraphEditor: src/hooks/useGraphEditor.ts 116-252.      *)
(* A Record<string, T> is a function from its keys; an object is a record,  *)
(* an optional field that is absent is no key of it.  Two objects with the  *)
(* same keys and values are the same graph.  Coordinates are whole numbers  *)
(* of EditorScale units per block.                                          *)

\* const MAX_HISTORY = 50   (line 32)
MAX_HISTORY == 50

\* units per block of the editor's coordinates
EditorScale == 2

\* {}
EmptyRecord == <<>>

\* { ...f, ...g }
Spread(f, g) ==
    [k \in (DOMAIN f) \cup (DOMAIN g) |-> IF k \in DOMAIN g THEN g[k] ELSE f[k]]

\* const { [key]: deleted, ...rest } = f
Rest(f, key) == [k \in (DOMAIN f) \ {key} |-> f[k]]

\* function createEmptyGraph()   (lines 34-36)
createEmptyGraph ==
    [nodes |-> EmptyRecord, edges |-> EmptyRecord, routers |-> EmptyRecord, meta |-> Absent]

Sign(n) == IF n > 0 THEN 1 ELSE IF n < 0 THEN 0 - 1 ELSE 0

\* nodeBoundaryPointTowards(nodeA, nodeB)   (lines 70-88), for nodes without
\* width and depth (half a block each way) that lie on a line along X or Z
nodeBoundaryPointTowards(nodeA, nodeB) ==
    LET a == nodeA.coords
        b == nodeB.coords
        dx == b[1] - a[1]
        dz == b[3] - a[3]
        half == EditorScale \div 2
    IN  IF dx = 0 /\ dz = 0 THEN <<a[1], a[2], a[3]>>
        ELSE IF dz = 0 THEN <<a[1] + Sign(dx) * half, a[2], a[3]>>
        ELSE <<a[1], a[2], a[3] + Sign(dz) * half>>

\* the body of the forEach of lines 46-110 for one edge
ConnectedEdge(nodes, edge, movedNodeIds) ==
    LET fromMoved == edge.from \in movedNodeIds
        toMoved == edge.to \in movedNodeIds
    IN  IF "id" \notin DOMAIN edge THEN edge
        ELSE IF ~(fromMoved \/ toMoved) THEN edge
        ELSE IF edge.from \notin DOMAIN nodes \/ edge.to \notin DOMAIN nodes THEN edge
        ELSE LET fromNode == nodes[edge.from]
                 toNode == nodes[edge.to]
                 p1 == fromNode.coords
                 p2 == toNode.coords
                 endpointA == nodeBoundaryPointTowards(fromNode, toNode)
                 endpointB == nodeBoundaryPointTowards(toNode, fromNode)
                 geo0 == IF "geometry" \in DOMAIN edge THEN edge.geometry
                         ELSE <<endpointA, endpointB>>
                 geo1 == IF fromMoved /\ Len(geo0) > 0
                         THEN [geo0 EXCEPT ![1] = endpointA] ELSE geo0
                 geo2 == IF toMoved /\ Len(geo1) > 0
                         THEN [geo1 EXCEPT ![Len(geo1)] = endpointB] ELSE geo1
             IN  Spread(edge, [geometry |-> geo2,
                               distance |-> hypot(p2[1] - p1[1], p2[3] - p1[3])])

\* function updateConnectedEdges(nodes, edges, movedNodeIds)   (lines 38-114);
\* every edge that has an id is stored under it
updateConnectedEdges(nodes, edgesById, movedNodeIds) ==
    [k \in DOMAIN edgesById |-> ConnectedEdge(nodes, edgesById[k], movedNodeIds)]

\* mutant: the oldest snapshot is never dropped
PushHistoryUnbounded(state, newPresent) ==
    [past |-> Append(state.past, state.present), present |-> newPresent, future |-> <<>>]

\* const pushHistory = (newPresent) => ...   (lines 120-128)
pushHistory(state, newPresent) ==
    LET newPast == Append(state.past, state.present)
    IN  [past |-> IF Len(newPast) > MAX_HISTORY THEN Tail(newPast) ELSE newPast,
         present |-> newPresent,
         future |-> <<>>]

\* mutant: UNDO drops the present instead of keeping it for REDO
UndoForgetful(state) ==
    IF Len(state.past) = 0 THEN state
    ELSE [past |-> SubSeq(state.past, 1, Len(state.past) - 1),
          present |-> state.past[Len(state.past)],
          future |-> state.future]

\* case "UNDO"   (lines 131-139)
ReduceUndo(state) ==
    IF Len(state.past) = 0 THEN state
    ELSE [past |-> SubSeq(state.past, 1, Len(state.past) - 1),
          present |-> state.past[Len(state.past)],
          future |-> <<state.present>> \o state.future]

\* case "REDO"   (lines 141-149)
ReduceRedo(state) ==
    IF Len(state.future) = 0 THEN state
    ELSE [past |-> Append(state.past, state.present),
          present |-> state.future[1],
          future |-> Tail(state.future)]

\* case "MOVE_NODES"   (lines 183-207)
ReduceMoveNodes(state, deltas) ==
    LET p == state.present
        movedIds == (DOMAIN deltas) \cap (DOMAIN p.nodes)
        newNodes ==
            [id \in DOMAIN p.nodes |->
                IF id \in movedIds
                THEN LET c == p.nodes[id].coords
                         d == deltas[id]
                     IN  Spread(p.nodes[id], [coords |-> <<c[1] + d[1], c[2] + d[2], c[3] + d[3]>>])
                ELSE p.nodes[id]]
        newEdges == updateConnectedEdges(newNodes, p.edges, movedIds)
    IN  pushHistory(state, [p EXCEPT !.nodes = newNodes, !.edges = newEdges])

\* case "DELETE_NODE"   (lines 209-222)
ReduceDeleteNode(state, id) ==
    LET p == state.present
        remainingNodes == Rest(p.nodes, id)
        remainingEdges ==
            [k \in {j \in DOMAIN p.edges : p.edges[j].from # id /\ p.edges[j].to # id}
                |-> p.edges[k]]
    IN  pushHistory(state, [p EXCEPT !.nodes = remainingNodes, !.edges = remainingEdges])

\* mutant: UPDATE_NODE does not look whether the node is there
ReduceUpdateNodeUnchecked(state, id, patch) ==
    LET p == state.present
        old == IF id \in DOMAIN p.nodes THEN p.nodes[id] ELSE EmptyRecord
    IN  pushHistory(state,
            [p EXCEPT !.nodes = Spread(p.nodes, [k \in {id} |-> Spread(old, patch)])])

\* case "UPDATE_NODE"   (lines 173-181)
ReduceUpdateNode(state, id, patch) ==
    LET p == state.present
    IN  IF id \notin DOMAIN p.nodes THEN state
        ELSE pushHistory(state,
                [p EXCEPT !.nodes = Spread(p.nodes, [k \in {id} |-> Spread(p.nodes[id], patch)])])

\* case "UPDATE_EDGE"   (lines 232-240)
ReduceUpdateEdge(state, id, patch) ==
    LET p == state.present
    IN  IF id \notin DOMAIN p.edges THEN state
        ELSE pushHistory(state,
                [p EXCEPT !.edges = Spread(p.edges, [k \in {id} |-> Spread(p.edges[id], patch)])])

\* function reducer(state, action)   (lines 116-252); action.now is the
\* Date.now() of line 226
reducer(state, action) ==
    LET p == state.present
    IN  CASE action.type = "UNDO" -> ReduceUndo(state)
          [] action.type = "REDO" -> ReduceRedo(state)
          [] action.type = "SET_GRAPH" ->
                [past |-> <<>>, present |-> action.graph, future |-> <<>>]
          [] action.type = "MERGE_GRAPH" ->
                pushHistory(state,
                    [nodes |-> Spread(p.nodes, action.graph.nodes),
                     edges |-> Spread(p.edges, action.graph.edges),
                     routers |-> Spread(p.routers, action.graph.routers),
                     meta |-> p.meta])
          [] action.type = "ADD_NODE" ->
                pushHistory(state,
                    [p EXCEPT !.nodes = Spread(p.nodes, [k \in {action.node.id} |-> action.node])])
          [] action.type = "UPDATE_NODE" -> ReduceUpdateNode(state, action.id, action.patch)
          [] action.type = "MOVE_NODES" -> ReduceMoveNodes(state, action.deltas)
          [] action.type = "DELETE_NODE" -> ReduceDeleteNode(state, action.id)
          [] action.type = "ADD_EDGE" ->
                LET edgeId == IF "id" \in DOMAIN action.edge THEN action.edge.id
                              ELSE "edge_" \o ToString(action.now)
                IN  pushHistory(state,
                        [p EXCEPT !.edges =
                            Spread(p.edges,
                                   [k \in {edgeId} |-> Spread(action.edge, [id |-> edgeId])])])
          [] action.type = "UPDATE_EDGE" -> ReduceUpdateEdge(state, action.id, action.patch)
          [] action.type = "DELETE_EDGE" ->
                pushHistory(state, [p EXCEPT !.edges = Rest(p.edges, action.id)])
          [] OTHER -> state

\* Bounds of the editor runs
\* largest number of counted actions of one run
MaxDispatches == 4

\* the nodes and edges the actions are drawn from; "n9" and "e9" are ids of
\* no node and no edge
NodeAt(id, x) == [id |-> id, type |-> "station", coords |-> <<x, 0, 0>>]

SampleNodes == [k \in {"n1", "n2"} |-> NodeAt(k, IF k = "n1" THEN 0 ELSE 4 * EditorScale)]

SampleEdge == [id |-> "e1", from |-> "n1", to |-> "n2", distance |-> 4 * EditorScale]

UnnamedEdge == [from |-> "n2", to |-> "n1", distance |-> 4 * EditorScale]

SampleGraph ==
    [nodes |-> SampleNodes, edges |-> [k \in {"e1"} |-> SampleEdge],
     routers |-> EmptyRecord, meta |-> "v1"]

ExtraGraph ==
    [nodes |-> [k \in {"n3"} |-> NodeAt("n3", 8 * EditorScale)],
     edges |-> EmptyRecord, routers |-> EmptyRecord, meta |-> Absent]

NodeIdsTried == {"n1", "n9"}

EdgeIdsTried == {"e1", "e9"}

NodePatch == [type |-> "junction"]

EdgePatch == [distance |-> 6 * EditorScale]

Deltas == {[k \in {id} |-> <<EditorScale, 0, 0>>] : id \in NodeIdsTried}

NoAction == [type |-> "none"]

\* the HistoryState
State == [past |-> past, present |-> present, future |-> future]

EditorIdle ==
    /\ past = <<>> /\ present = createEmptyGraph /\ future = <<>>
    /\ lastAction = NoAction
    /\ before = [past |-> <<>>, present |-> createEmptyGraph, future |-> <<>>]
    /\ dispatched = 0 /\ epc = "idle"

\* useReducer(reducer, { past: [], present: initialGraph || createEmptyGraph(),
\* future: [] })   (lines 255-259)
EditorInputs ==
    /\ past = <<>> /\ present \in {createEmptyGraph, SampleGraph} /\ future = <<>>
    /\ lastAction = NoAction
    /\ before = [past |-> <<>>, present |-> present, future |-> <<>>]
    /\ dispatched = 0 /\ epc = "editing"

\* dispatch(action): the state becomes reducer(state, action)
Dispatch(action) ==
    LET next == reducer(State, action)
    IN  /\ epc = "editing"
        /\ past' = next.past /\ present' = next.present /\ future' = next.future
        /\ lastAction' = action
        /\ before' = State
        /\ UNCHANGED epc
        /\ UNCHANGED notEditor

\* the action is one of the at most MaxDispatches of a run
Counted == dispatched < MaxDispatches /\ dispatched' = dispatched + 1

Undo == Counted /\ Dispatch([type |-> "UNDO"])

Redo == Counted /\ Dispatch([type |-> "REDO"])

SetGraph ==
    Counted /\ \E g \in {createEmptyGraph, SampleGraph} : Dispatch([type |-> "SET_GRAPH", graph |-> g])

MergeGraph == Counted /\ Dispatch([type |-> "MERGE_GRAPH", graph |-> ExtraGraph])

AddNode ==
    Counted /\ \E id \in {"n1", "n2"} : Dispatch([type |-> "ADD_NODE", node |-> SampleNodes[id]])

UpdateNode ==
    Counted /\ \E id \in NodeIdsTried :
                 Dispatch([type |-> "UPDATE_NODE", id |-> id, patch |-> NodePatch])

MoveNodes == Counted /\ \E d \in Deltas : Dispatch([type |-> "MOVE_NODES", deltas |-> d])

DeleteNode == Counted /\ \E id \in NodeIdsTried : Dispatch([type |-> "DELETE_NODE", id |-> id])

AddEdge ==
    Counted /\ \E e \in {SampleEdge, UnnamedEdge} :
                 Dispatch([type |-> "ADD_EDGE", edge |-> e, now |-> 1])

UpdateEdge ==
    Counted /\ \E id \in EdgeIdsTried :
                 Dispatch([type |-> "UPDATE_EDGE", id |-> id, patch |-> EdgePatch])

DeleteEdge == Counted /\ \E id \in EdgeIdsTried : Dispatch([type |-> "DELETE_EDGE", id |-> id])

\* a long run of one edit, UNDO and REDO, as many as the user likes
LongRunInputs ==
    /\ past = <<>> /\ present = SampleGraph /\ future = <<>>
    /\ lastAction = NoAction
    /\ before = [past |-> <<>>, present |-> present, future |-> <<>>]
    /\ dispatched = 0 /\ epc = "editing"

EditOn ==
    /\ UNCHANGED dispatched
    /\ Dispatch([type |-> "UPDATE_NODE", id |-> "n1", patch |-> NodePatch])

UndoOn == UNCHANGED dispatched /\ Dispatch([type |-> "UNDO"])

RedoOn == UNCHANGED dispatched /\ Dispatch([type |-> "REDO"])

----------------------------------------------------------------------------
(* Specifications: one per function, each started on every input of its bounds *)

InitDijkstra ==
    DijkstraInputs /\ RouterIdle /\ MergeIdle /\ ReconcileIdle /\ UploaderIdle /\ WorkerIdle
      /\ GeometryIdle /\ EditorIdle

NextDijkstra ==
    \/ DijkstraThrow
    \/ DijkstraBegin
    \/ DijkstraIterate
    \/ DijkstraReturn

SpecDijkstra == InitDijkstra /\ [][NextDijkstra]_vars

\* a call that was made runs on: the function is synchronous and nothing
\* else can hold it up (every step of it moves dpc or settles a node)
SpecDijkstraRuns == SpecDijkstra /\ WF_<<dpc, settled>>(NextDijkstra)

InitRouter ==
    RouterInputs /\ DijkstraIdle /\ MergeIdle /\ ReconcileIdle /\ UploaderIdle /\ WorkerIdle
      /\ GeometryIdle /\ EditorIdle

NextRouter == ValidateRouterLayout

SpecRouter == InitRouter /\ [][NextRouter]_vars

InitMerge ==
    MergeInputs /\ DijkstraIdle /\ RouterIdle /\ ReconcileIdle /\ UploaderIdle /\ WorkerIdle
      /\ GeometryIdle /\ EditorIdle

NextMerge == MergeEdgeSegments

SpecMerge == InitMerge /\ [][NextMerge]_vars

InitReconcile ==
    ReconcileInputs /\ DijkstraIdle /\ RouterIdle /\ MergeIdle /\ UploaderIdle /\ WorkerIdle
      /\ GeometryIdle /\ EditorIdle

NextReconcile ==
    \/ ReconcileBegin
    \/ SnapSample
    \/ GroupByEdge
    \/ ReconcileEdge
    \/ ReconcileReturn

SpecReconcile == InitReconcile /\ [][NextReconcile]_vars

InitRecall ==
    RecallInputs /\ DijkstraIdle /\ RouterIdle /\ MergeIdle /\ UploaderIdle /\ WorkerIdle
      /\ GeometryIdle /\ EditorIdle

NextRecall == NextReconcile \/ ReconcileAgain

SpecRecall == InitRecall /\ [][NextRecall]_vars

InitReapply ==
    RecallInputs /\ DijkstraIdle /\ RouterIdle /\ MergeIdle /\ UploaderIdle /\ WorkerIdle
      /\ GeometryIdle /\ EditorIdle

NextReapply == NextReconcile \/ ReconcileReapplied

SpecReapply == InitReapply /\ [][NextReapply]_vars

InitUploader ==
    UploaderInputs /\ DijkstraIdle /\ RouterIdle /\ MergeIdle /\ WorkerIdle
      /\ GeometryIdle /\ EditorIdle

\* the call of line 77 runs while handleFile waits in it
NextUploader ==
    \/ HandleFile
    \/ (upc = "file" /\ NextReconcile)
    \/ HandleFileReturn
    \/ HandleApprove
    \/ Authorize
    \/ WorkerAnswers
    \/ ResetPreview

SpecUploader == InitUploader /\ [][NextUploader]_vars

InitWorker ==
    WorkerInputs /\ DijkstraIdle /\ RouterIdle /\ MergeIdle /\ ReconcileIdle /\ UploaderIdle
      /\ GeometryIdle /\ EditorIdle

NextWorker ==
    \/ HandleRequest
    \/ ExchangeToken
    \/ ReadBaseRef
    \/ CreateBranch
    \/ CheckFile
    \/ CommitFile
    \/ OpenPullRequest

SpecWorker == InitWorker /\ [][NextWorker]_vars

InitGeometry ==
    GeometryInputs /\ DijkstraIdle /\ RouterIdle /\ MergeIdle /\ ReconcileIdle
      /\ UploaderIdle /\ WorkerIdle /\ EditorIdle

NextGeometry == PointToSegment \/ ProjectOnto

SpecGeometry == InitGeometry /\ [][NextGeometry]_vars

InitEditor ==
    EditorInputs /\ DijkstraIdle /\ RouterIdle /\ MergeIdle /\ ReconcileIdle
      /\ UploaderIdle /\ WorkerIdle /\ GeometryIdle

NextEditor ==
    \/ Undo \/ Redo \/ SetGraph \/ MergeGraph
    \/ AddNode \/ UpdateNode \/ MoveNodes \/ DeleteNode
    \/ AddEdge \/ UpdateEdge \/ DeleteEdge

SpecEditor == InitEditor /\ [][NextEditor]_vars

InitHistory ==
    LongRunInputs /\ DijkstraIdle /\ RouterIdle /\ MergeIdle /\ ReconcileIdle
      /\ UploaderIdle /\ WorkerIdle /\ GeometryIdle

NextHistory == EditOn \/ UndoOn \/ RedoOn

SpecHistory == InitHistory /\ [][NextHistory]_vars

Init ==
    \/ InitDijkstra \/ InitRouter \/ InitMerge \/ InitReconcile \/ InitRecall
    \/ InitUploader \/ InitWorker \/ InitGeometry \/ InitEditor

Next ==
    \/ NextDijkstra \/ NextRouter \/ NextMerge \/ NextRecall
    \/ NextUploader \/ NextWorker \/ ReconcileReapplied \/ NextGeometry
    \/ NextEditor \/ NextHistory

Spec == Init /\ [][Next]_vars

----------------------------------------------------------------------------
(* Claims about dijkstra.  The definitions below state what the claims     *)
(* say; they use graph, source and target only, not the algorithm's state. *)

\* the weight the claims give an edge: routing_weight when present, else distance
ClaimWeight(e) == IF e.routing_weight = NoNumber THEN e.distance ELSE e.routing_weight

\* directed edges between nodes of graph.nodes
NodeEdges(g) == {i \in 1..Len(g.edges) :
                   g.edges[i].from \in SeqToSet(g.nodes) /\ g.edges[i].to \in SeqToSet(g.nodes)}

\* one round of relaxing every edge (Bellman-Ford), d a function on the nodes
BFRound(g, d) ==
    [v \in SeqToSet(g.nodes) |->
        LET into == {i \in NodeEdges(g) : g.edges[i].to = v /\ d[g.edges[i].from] # Infinity}
            cands == {d[g.edges[i].from] + ClaimWeight(g.edges[i]) : i \in into}
                        \cup (IF d[v] = Infinity THEN {} ELSE {d[v]})
        IN  IF cands = {} THEN Infinity
            ELSE CHOOSE m \in cands : \A c \in cands : m <= c]

RECURSIVE BFRounds(_, _, _)
BFRounds(g, d, k) == IF k = 0 THEN d ELSE BFRounds(g, BFRound(g, d), k - 1)

\* the minimum, over all directed paths s -> t, of the sum of the edge weights
\* (Infinity when there is none)
MinPathWeight(g, s, t) ==
    BFRounds(g, [v \in SeqToSet(g.nodes) |-> IF v = s THEN 0 ELSE Infinity],
             Len(g.nodes))[t]

\* the nodes reachable from s along directed edges
RECURSIVE ReachFrom(_, _)
ReachFrom(g, R) ==
    LET R2 == R \cup {g.edges[i].to : i \in {j \in NodeEdges(g) : g.edges[j].from \in R}}
    IN  IF R2 = R THEN R ELSE ReachFrom(g, R2)

Reachable(g, s, t) == t \in ReachFrom(g, {s})

DeclaredNodes == {graph.nodes[i] : i \in 1..Len(graph.nodes)}

\* the edge of graph.edges with the given id (ids are unique in graph.edges)
EdgeById(g, id) == g.edges[CHOOSE i \in 1..Len(g.edges) : g.edges[i].id = id]

\* C1: when dijkstra returns and target is reachable from source, the returned
\* distance is the minimum over all directed paths of the sum of edge weights
C1_ShortestDistance ==
    (dpc = "returned" /\ Reachable(graph, source, target))
        => dresult.distance = MinPathWeight(graph, source, target)

\* C1 witness: a returned call where a two-edge path beats a direct edge
C1_Witness ==
    /\ dpc = "returned"
    /\ dresult.path # Null
    /\ Len(dresult.path.nodes) = 3
    /\ \E i \in 1..Len(graph.edges) :
          /\ graph.edges[i].from = source /\ graph.edges[i].to = target
          /\ ClaimWeight(graph.edges[i]) > dresult.distance

\* C2: dijkstra ends with path = null and distance = Infinity, and no error,
\* exactly when source and target are nodes and no directed path joins them
C2_NullIffUnreachable ==
    (dpc \in {"returned", "threw"}) =>
        ((dpc = "returned" /\ dresult.path = Null /\ dresult.distance = Infinity)
            <=> (source \in DeclaredNodes /\ target \in DeclaredNodes
                   /\ ~Reachable(graph, source, target)))

\* C2 also: a null path and an infinite distance always come together
C2_Witness ==
    /\ dpc = "returned"
    /\ dresult.path = Null
    /\ dresult.distance = Infinity
    /\ \E i \in 1..Len(graph.edges) : graph.edges[i].from = source
    /\ \E i \in 1..Len(graph.edges) : graph.edges[i].to = target

\* C3: dijkstra raises an error, and returns nothing, exactly when source or
\* target is not in graph.nodes, even if an edge names that id
C3_ThrowsIffUnknownNode ==
    /\ (dpc \in {"returned", "threw"}) =>
          (dpc = "threw" <=> (source \notin DeclaredNodes \/ target \notin DeclaredNodes))
    /\ (source \notin DeclaredNodes \/ target \notin DeclaredNodes) =>
          (dpc \in {"call", "threw"}
           /\ dresult \in {Pending, [thrown |-> "Source node not found"],
                           [thrown |-> "Target node not found"]})
    /\ (dpc = "threw") =>
          dresult = [thrown |-> IF source \notin DeclaredNodes THEN "Source node not found"
                                ELSE "Target node not found"]

\* C3 witness: the call threw for an id that is the from of one edge and the to
\* of another, but is not in graph.nodes
C3_Witness ==
    /\ dpc = "threw"
    /\ source = StrayId
    /\ \E i \in 1..Len(graph.edges) : graph.edges[i].from = StrayId
    /\ \E i \in 1..Len(graph.edges) : graph.edges[i].to = StrayId

\* C4: a returned non-null path runs from source to target over graph edges,
\* visits no node twice and its edge weights sum to the returned distance;
\* for source = target it is the single node, no edge, distance 0
C4_PathWellFormed ==
    (dpc = "returned" /\ dresult.path # Null) =>
        LET ns == dresult.path.nodes
            es == dresult.path.edges
        IN  /\ Len(ns) >= 1
            /\ ns[1] = source
            /\ ns[Len(ns)] = target
            /\ Len(es) = Len(ns) - 1
            /\ \A i \in 1..Len(es) :
                  \E k \in 1..Len(graph.edges) :
                     /\ graph.edges[k].id = es[i]
                     /\ graph.edges[k].from = ns[i]
                     /\ graph.edges[k].to = ns[i + 1]
            /\ \A i, j \in 1..Len(ns) : i # j => ns[i] # ns[j]
            /\ SumSeq([i \in 1..Len(es) |-> ClaimWeight(EdgeById(graph, es[i]))])
                  = dresult.distance
            /\ (source = target) =>
                  (ns = <<source>> /\ es = <<>> /\ dresult.distance = 0)

\* C4 witness: a returned path of three nodes, and a source = target call
C4_Witness ==
    /\ dpc = "returned"
    /\ dresult.path # Null
    /\ Len(dresult.path.nodes) = 3
    /\ dresult.distance > 0

----------------------------------------------------------------------------
(* Claims about validateRouterLayout *)

\* p is a literal string prefix of s: s is p followed by some rest
IsPrefixOf(p, s) == \E n \in 0..Len(s) : p = SubSeq(s, 1, n)

\* the conflicting combinations <<i, j, a, b>>: two different positions i, j
\* and arguments a of exit i, b of exit j, different, the first a prefix of
\* the second
Conflicts(ex) ==
    {c \in (1..Len(ex)) \X (1..Len(ex)) \X (1..MaxArgsTotal) \X (1..MaxArgsTotal) :
        /\ c[1] # c[2]
        /\ c[3] <= Len(ex[c[1]].onedest_args)
        /\ c[4] <= Len(ex[c[2]].onedest_args)
        /\ ex[c[1]].onedest_args[c[3]] # ex[c[2]].onedest_args[c[4]]
        /\ IsPrefixOf(ex[c[1]].onedest_args[c[3]], ex[c[2]].onedest_args[c[4]])}

\* c comes before d in the scan order: exitA, then exitB, then argA, then argB
ScanBefore(c, d) ==
    \/ c[1] < d[1]
    \/ c[1] = d[1] /\ c[2] < d[2]
    \/ c[1] = d[1] /\ c[2] = d[2] /\ c[3] < d[3]
    \/ c[1] = d[1] /\ c[2] = d[2] /\ c[3] = d[3] /\ c[4] <= d[4]

\* C5: CONFLICT_DETECTED is returned exactly when two exits at different
\* positions hold different arguments of which one is a prefix of the other;
\* otherwise UNORDERED_SAFE
C5_ConflictIffCrossExitPrefix ==
    (rpc = "returned") =>
        /\ rresult.status \in {"CONFLICT_DETECTED", "UNORDERED_SAFE"}
        /\ rresult.status = "CONFLICT_DETECTED" <=> Conflicts(exits) # {}

\* C5 witness: UNORDERED_SAFE although one exit holds an argument and a longer
\* one that starts with it, and two exits hold the same argument
C5_Witness ==
    /\ rpc = "returned"
    /\ rresult.status = "UNORDERED_SAFE"
    /\ \E i \in 1..Len(exits) :
          /\ Len(exits[i].onedest_args) = 2
          /\ exits[i].onedest_args[1] # exits[i].onedest_args[2]
          /\ IsPrefixOf(exits[i].onedest_args[1], exits[i].onedest_args[2])
    /\ \E i, j \in 1..Len(exits) :
          /\ i # j
          /\ \E a \in 1..Len(exits[i].onedest_args) :
                \E b \in 1..Len(exits[j].onedest_args) :
                   exits[i].onedest_args[a] = exits[j].onedest_args[b]

\* C6: the reported conflict is the first conflicting combination in scan
\* order; argA is a strictly shorter prefix of argB, exitA and exitB are the
\* exits at its two different positions
C6_FirstConflictReported ==
    (rpc = "returned" /\ rresult.status = "CONFLICT_DETECTED") =>
        \E c \in Conflicts(exits) :
            /\ \A d \in Conflicts(exits) : ScanBefore(c, d)
            /\ c[1] # c[2]
            /\ rresult.conflict.exitA = exits[c[1]]
            /\ rresult.conflict.exitB = exits[c[2]]
            /\ rresult.conflict.argA = exits[c[1]].onedest_args[c[3]]
            /\ rresult.conflict.argB = exits[c[2]].onedest_args[c[4]]
            /\ Len(rresult.conflict.argA) < Len(rresult.conflict.argB)
            /\ IsPrefixOf(rresult.conflict.argA, rresult.conflict.argB)

\* C6 witness: a conflict is reported and a later, different one exists too
C6_Witness ==
    /\ rpc = "returned"
    /\ rresult.status = "CONFLICT_DETECTED"
    /\ \E d \in Conflicts(exits) :
          /\ exits[d[1]].onedest_args[d[3]] # rresult.conflict.argA
          /\ exits[d[2]].onedest_args[d[4]] # rresult.conflict.argB
          /\ exits[d[1]] # rresult.conflict.exitA

----------------------------------------------------------------------------
(* Claims about mergeEdgeSegments *)

\* segment g covers offset x
Covers(g, x) == g.start_offset <= x /\ x < g.end_offset

\* the types of the segments of segs that cover x
TypesAt(segs, x) == {segs[i].type : i \in {j \in 1..Len(segs) : Covers(segs[j], x)}}

\* C7: at every offset x of [0, totalDistance) the output has the type of an
\* incoming segment covering x if there is one, else of an existing segment
\* covering x if there is one, else uncoppered
C7_IncomingOverrides ==
    (mpc = "returned") =>
        \A x \in 0..(totalDistance - 1) :
            /\ Cardinality({i \in 1..Len(mresult) : Covers(mresult[i], x)}) = 1
            /\ LET t == CHOOSE u \in TypesAt(mresult, x) : TRUE
               IN  IF TypesAt(incoming, x) # {} THEN t \in TypesAt(incoming, x)
                   ELSE IF TypesAt(existing, x) # {} THEN t \in TypesAt(existing, x)
                   ELSE t = "uncoppered"

\* C7 witness: a merge where an incoming segment lies over an existing one of
\* the other type, another offset has only an existing coppered segment and a
\* third has none
C7_Witness ==
    /\ mpc = "returned"
    /\ \E x \in 0..(totalDistance - 1) :
          /\ TypesAt(incoming, x) = {"uncoppered"}
          /\ TypesAt(existing, x) = {"coppered"}
    /\ \E x \in 0..(totalDistance - 1) :
          TypesAt(incoming, x) = {} /\ TypesAt(existing, x) = {"coppered"}
    /\ \E x \in 0..(totalDistance - 1) :
          TypesAt(incoming, x) = {} /\ TypesAt(existing, x) = {}

----------------------------------------------------------------------------
(* Claims about reconcileSurvey *)

\* the edges to which a sample was assigned, by index
Touched ==
    {i \in 1..Len(edges) : \E k \in 1..Len(snapped) : snapped[k] = edges[i].id}

\* segs is sorted, every segment has a positive length, each starts where the
\* previous one ends, the first starts at 0 and the last ends at d
Tiles(segs, d) ==
    /\ Len(segs) >= 1
    /\ segs[1].start_offset = 0
    /\ segs[Len(segs)].end_offset = d
    /\ \A i \in 1..Len(segs) : segs[i].start_offset < segs[i].end_offset
    /\ \A i \in 2..Len(segs) : segs[i].start_offset = segs[i - 1].end_offset
    /\ \A i \in 1..Len(segs) : \A j \in i..Len(segs) :
          segs[i].start_offset <= segs[j].start_offset

Alternates(segs) == \A k \in 2..Len(segs) : segs[k].type # segs[k - 1].type

\* C9: in the segments reconcileSurvey produces for an edge, in updatedEdges
\* and in diffs, no two consecutive segments have the same type
C9_NoEqualNeighbours ==
    (spc = "returned") =>
        /\ \A i \in Touched : Alternates(sresult.updatedEdges[i].segments[1])
        /\ \A k \in 1..Len(sresult.diffs) : Alternates(sresult.diffs[k].newSegments)

\* C9 witness: the stored segments of a surveyed edge had two abutting
\* segments of one type, and their common boundary now lies inside a segment
C9_Witness ==
    /\ spc = "returned"
    /\ \E i \in Touched :
          /\ surveyGraph[i].segments # None
          /\ LET old == surveyGraph[i].segments[1]
                 new == sresult.updatedEdges[i].segments[1]
             IN  \E k \in 2..Len(old) :
                    /\ old[k].type = old[k - 1].type
                    /\ old[k].start_offset = old[k - 1].end_offset
                    /\ \E n \in 1..Len(new) :
                          /\ new[n].start_offset < old[k].start_offset
                          /\ old[k].start_offset < new[n].end_offset

\* the point of [lo, hi] (in either order) nearest to v
NearestIn(v, lo, hi) ==
    IF lo <= hi THEN (IF v < lo THEN lo ELSE IF v > hi THEN hi ELSE v)
    ELSE (IF v < hi THEN hi ELSE IF v > lo THEN lo ELSE v)

\* the square of the planar distance from p to the axis-parallel segment a-b
SegmentDistSq(p, a, b) ==
    Sq(p[1] - NearestIn(p[1], a[1], b[1])) + Sq(p[3] - NearestIn(p[3], a[3], b[3]))

\* the square of the planar distance from p to the polyline poly (2 points or more)
PolylineDistSq(poly, p) ==
    LET ds == {SegmentDistSq(p, poly[i], poly[i + 1]) : i \in 1..(Len(poly) - 1)}
    IN  CHOOSE d \in ds : \A o \in ds : d <= o

\* the id of the edge sample s belongs to: the first of the nearest edges among
\* those with a geometry of 2 points or more, if within th; else None
NearestEdgeId(es, s, th) ==
    LET cand == {i \in 1..Len(es) :
                    es[i].geometry # None /\ Len(es[i].geometry[1]) >= 2}
        d(i) == PolylineDistSq(es[i].geometry[1], s.coords)
        near == {i \in cand : d(i) <= Sq(th)}
    IN  IF near = {} THEN None
        ELSE LET w == CHOOSE i \in near :
                          \A j \in near : d(i) < d(j) \/ (d(i) = d(j) /\ i <= j)
             IN  es[w].id

\* the entries of snapped that are not None, in order
RECURSIVE Assigned(_)
Assigned(sn) ==
    IF sn = <<>> THEN <<>>
    ELSE IF Head(sn) = None THEN Assigned(Tail(sn))
    ELSE <<Head(sn)[1]>> \o Assigned(Tail(sn))

\* C10: every sample is assigned to the nearest edge among those with a
\* geometry of 2 points or more (the first of them on a tie), if that distance
\* is at most thresholdBlocks; any other sample is dropped, adds no projection
\* and no diff, and an edge without geometry gets no sample
C10_NearestEdgeWithinThreshold ==
    /\ \A k \in 1..Len(snapped) :
          snapped[k] = NearestEdgeId(edges, survey[k], thresholdBlocks)
    /\ [k \in 1..Len(projs) |-> projs[k].edgeId] = Assigned(snapped)
    /\ \A i \in Touched : surveyGraph[i].geometry # None
                            /\ Len(surveyGraph[i].geometry[1]) >= 2
    /\ (spc = "returned") =>
          /\ {Some(sresult.diffs[k].edgeId) : k \in 1..Len(sresult.diffs)}
                = {edges[i].id : i \in Touched}
          /\ \A i \in (1..Len(edges)) \ Touched :
                edges[i] = WithSynthesizedIds(surveyGraph)[i]

\* C10 witness: one sample lies exactly thresholdBlocks from two edges and went
\* to the first of them, another sample has no edge within the threshold
C10_Witness ==
    /\ spc = "returned"
    /\ \E k \in 1..Len(survey) :
          /\ Len(edges) = 2
          /\ edges[1].geometry # None /\ Len(edges[1].geometry[1]) >= 2
          /\ edges[2].geometry # None /\ Len(edges[2].geometry[1]) >= 2
          /\ PolylineDistSq(edges[1].geometry[1], survey[k].coords) = Sq(thresholdBlocks)
          /\ PolylineDistSq(edges[2].geometry[1], survey[k].coords) = Sq(thresholdBlocks)
          /\ snapped[k] = edges[1].id
    /\ \E k \in 1..Len(survey) : snapped[k] = None

Surveyed ==
    {i \in 1..Len(surveyGraph) :
        \E k \in 1..Len(survey) :
            NearestEdgeId(WithSynthesizedIds(surveyGraph), survey[k], thresholdBlocks)
                = WithSynthesizedIds(surveyGraph)[i].id}

\* C13: diffs has exactly one entry for every edge with a sample and none for
\* any other edge; its oldSegments are the segments of the edge in the input
\* graph (absent if it had none), its newSegments those of the edge in
\* updatedEdges
C13_OneDiffPerSurveyedEdge ==
    (spc = "returned") =>
        /\ \A i \in Surveyed :
              LET id == sresult.updatedEdges[i].id[1]
                  at == {k \in 1..Len(sresult.diffs) : sresult.diffs[k].edgeId = id}
              IN  /\ Cardinality(at) = 1
                  /\ \A k \in at :
                        /\ sresult.diffs[k].oldSegments = surveyGraph[i].segments
                        /\ Some(sresult.diffs[k].newSegments)
                              = sresult.updatedEdges[i].segments
        /\ \A k \in 1..Len(sresult.diffs) :
              \E i \in Surveyed : sresult.updatedEdges[i].id = Some(sresult.diffs[k].edgeId)

\* C13 witness: two edges got a sample each, one had stored segments and the
\* other had none
C13_Witness ==
    /\ spc = "returned"
    /\ Len(sresult.diffs) = 2
    /\ Cardinality(Surveyed) = 2
    /\ \E k \in 1..Len(sresult.diffs) : sresult.diffs[k].oldSegments = None
    /\ \E k \in 1..Len(sresult.diffs) : sresult.diffs[k].oldSegments # None

\* the summed length of the coppered segments of segs
RECURSIVE CopperedLength(_)
CopperedLength(segs) ==
    IF segs = <<>> THEN 0
    ELSE (IF Head(segs).type = "coppered"
          THEN Head(segs).end_offset - Head(segs).start_offset ELSE 0)
         + CopperedLength(Tail(segs))

\* the rational c = <<n, d>> is copper / distance cut down to [0, 1]
IsShareOf(c, copper, distance) ==
    IF copper >= distance THEN c[1] = c[2]
    ELSE IF copper <= 0 THEN c[1] = 0
    ELSE c[1] * distance = copper * c[2]

\* C14 (as stated; refuted): the total_copper_coverage of every reconciled edge
\* is the summed length of its coppered segments divided by its distance, cut
\* down to [0, 1], for every positive distance
C14_CoverageIsCopperOverDistance ==
    (spc = "returned") =>
        \A i \in Surveyed :
            LET e == sresult.updatedEdges[i]
            IN  IsShareOf(e.total_copper_coverage[1], CopperedLength(e.segments[1]),
                          e.distance)

\* C14: the same for the edges of at least one block, where the code agrees
C14_CoverageFromOneBlock ==
    (spc = "returned") =>
        \A i \in Surveyed :
            LET e == sresult.updatedEdges[i]
            IN  e.distance >= Scale =>
                    IsShareOf(e.total_copper_coverage[1], CopperedLength(e.segments[1]),
                              e.distance)

\* C14 witness: a reconciled edge of at least one block that is coppered in
\* part, beside an uncoppered part
C14_Witness ==
    /\ spc = "returned"
    /\ \E i \in Surveyed :
          LET e == sresult.updatedEdges[i]
          IN  /\ e.distance >= Scale
              /\ 0 < CopperedLength(e.segments[1])
              /\ CopperedLength(e.segments[1]) < e.distance

----------------------------------------------------------------------------
(* C15: the speed of a coalesced segment.                                   *)

\* the intervals between consecutive breakpoints, before they are coalesced
MergedPieces ==
    Pieces(SortAscending(Breakpoints(totalDistance, existing, incoming)), 1,
           existing, incoming, <<>>)

\* the indices of the intervals that make up the returned segment g
PartsOf(g) ==
    {j \in 1..Len(MergedPieces) :
        /\ g.start_offset <= MergedPieces[j].start_offset
        /\ MergedPieces[j].end_offset <= g.end_offset}

Carriers(g) == {j \in PartsOf(g) : MergedPieces[j].avg_speed # NoSpeed}

PieceLength(j) == MergedPieces[j].end_offset - MergedPieces[j].start_offset

\* the sum over the intervals J of speed times length, and of length
RECURSIVE SpeedByLength(_)
SpeedByLength(J) ==
    IF J = {} THEN RatInt(0)
    ELSE LET j == CHOOSE x \in J : TRUE
         IN  RatAdd(RatTimesInt(MergedPieces[j].avg_speed, PieceLength(j)),
                    SpeedByLength(J \ {j}))

RECURSIVE TotalLength(_)
TotalLength(J) ==
    IF J = {} THEN 0
    ELSE LET j == CHOOSE x \in J : TRUE
         IN  PieceLength(j) + TotalLength(J \ {j})

\* the length-weighted average of the speeds of the intervals J
WeightedAverage(J) == RatOverInt(SpeedByLength(J), TotalLength(J))

\* C15 (as stated; refuted): every returned segment has the length-weighted
\* average of the speeds of its intervals that carry a speed, an interval
\* without a speed not counting, and has no avg_speed when none of its
\* intervals carries one.
C15_SpeedAveragesCarriers ==
    (mpc = "returned") =>
        \A i \in 1..Len(mresult) :
            IF Carriers(mresult[i]) = {}
            THEN mresult[i].avg_speed = NoSpeed
            ELSE mresult[i].avg_speed = WeightedAverage(Carriers(mresult[i]))

\* C15 (what holds): a returned segment all of whose intervals carry a speed
\* has the length-weighted average of these speeds.
C15_SpeedAveragesWhenAllCarry ==
    (mpc = "returned") =>
        \A i \in 1..Len(mresult) :
            (Carriers(mresult[i]) = PartsOf(mresult[i]))
                => mresult[i].avg_speed = WeightedAverage(PartsOf(mresult[i]))

\* a segment coalesced from intervals of different lengths and different
\* speeds, all carrying one
C15_Witness ==
    /\ mpc = "returned"
    /\ \E i \in 1..Len(mresult) :
          /\ Carriers(mresult[i]) = PartsOf(mresult[i])
          /\ \E j, k \in PartsOf(mresult[i]) :
                /\ MergedPieces[j].avg_speed # MergedPieces[k].avg_speed
                /\ PieceLength(j) # PieceLength(k)

----------------------------------------------------------------------------
(* C16: what the survey upload flow posts.                                  *)

\* the edges of the network in the file content posted to the worker
PostedEdges == posted[1].fileContent.edges

\* the indices of the edges a diff is about
EdgesOfDiff(d) ==
    {i \in 1..Len(surveyGraph) : WithSynthesizedIds(surveyGraph)[i].id = Some(d.edgeId)}

\* C16 (as stated; refuted): when the payload is posted after the approval,
\* every edge of the posted file content that a previewed diff is about has
\* the newSegments of that diff as its segments.
C16_PostedIsReconciled ==
    (upc = "posting") =>
        \A k \in 1..Len(diffsState[1]) : \A i \in EdgesOfDiff(diffsState[1][k]) :
            /\ i <= Len(PostedEdges)
            /\ PostedEdges[i].segments = Some(diffsState[1][k].newSegments)

\* C16 (what holds): the posted file content is the graph as it was given to
\* the component, before the reconciliation.
C16_PostedIsGraphProp ==
    (upc = "posting") => posted = Some(Payload(JSONStringify(surveyGraph), Len(diffsState[1])))

\* a payload posted after the approval of a diff that changes the segments
\* of its edge
C16_Witness ==
    /\ upc = "posting"
    /\ \E k \in 1..Len(diffsState[1]) : \E i \in EdgesOfDiff(diffsState[1][k]) :
          surveyGraph[i].segments # Some(diffsState[1][k].newSegments)

----------------------------------------------------------------------------
(* C17, C19: the worker.                                                    *)

\* every value a Response lets its reader see
Contents(r) == {r.body.text} \cup r.body.parts \cup r.headers

\* the request is a POST to /create-pr
IsCreatePr == request.method = "POST" /\ EndsWithCreatePr(request.pathname)

\* C17: no response of the worker, whatever GitHub answers, holds the access
\* token or the client secret in its body or its headers, and the 200
\* response to a POST /create-pr holds the PR URL and nothing else.
C17_NoSecretInResponse ==
    (response # Null) =>
        /\ AccessToken \notin Contents(response)
        /\ ClientSecret \notin Contents(response)
        /\ (IsCreatePr /\ response.status = 200) =>
              /\ response.body.text = "prUrl"
              /\ response.body.parts \subseteq PullRequestUrls
              /\ response.headers = JsonHeaders

\* a success response, given while the worker holds the token
C17_Witness ==
    /\ wpc = "responded" /\ token = AccessToken
    /\ IsCreatePr /\ response.status = 200

\* the outbound steps, in the order of the code
WorkerSteps == <<"exchange", "base ref", "branch", "file", "commit", "pull request">>

\* the step failed, as the claim counts failures
Failed(call) ==
    CASE call.step = "exchange" -> call.answer # "token"
      [] call.step = "base ref" -> call.answer # "sha"
      [] call.step = "branch" ->
           call.answer = "throws" \/ (call.status # 201 /\ call.status # 422)
      [] call.step = "file" -> FALSE
      [] call.step = "commit" -> call.answer # "ok"
      [] call.step = "pull request" -> call.answer # "ok"

\* C19: the outbound calls of a POST /create-pr are made in the fixed order
\* exchange, base ref, branch, (look for the file,) commit, pull request; no
\* call follows a failed one, the response after a failed call or a thrown
\* error is not a 200, and a 200 is given only after the pull request was
\* created.
C19_StepsInOrderStopAtFailure ==
    /\ Len(calls) <= Len(WorkerSteps)
    /\ \A i \in 1..Len(calls) : calls[i].step = WorkerSteps[i]
    /\ \A i \in 1..(Len(calls) - 1) : ~Failed(calls[i])
    /\ (response # Null /\ IsCreatePr) =>
          IF response.status = 200
          THEN /\ Len(calls) = Len(WorkerSteps)
               /\ ~Failed(calls[Len(calls)])
               /\ response.body.text = "prUrl"
          ELSE wpc = "responded"
    /\ (wpc = "responded" /\ calls # <<>> /\ Failed(calls[Len(calls)]))
          => response.status # 200

\* a response to a branch creation answered with neither 201 nor 422, after
\* the exchange and the read of the base ref succeeded
C19_Witness ==
    /\ wpc = "responded" /\ Len(calls) = 3
    /\ calls[3].answer = "status" /\ calls[3].status = 403
    /\ response.status = 500

----------------------------------------------------------------------------
(* C18: the candidate segments built from the samples of an edge.           *)

\* the samples assigned to the edge of entry k of byEdge, in survey order
SamplesOf(k) == SelectSeq(projs, LAMBDA p : p.edgeId = byEdge[k].edgeId)

\* S holds the elements of T, as often as T does
SameSamples(S, T) ==
    /\ Len(S) = Len(T)
    /\ \A x \in SeqToSet(S) \cup SeqToSet(T) :
          Cardinality({i \in 1..Len(S) : S[i] = x}) = Cardinality({i \in 1..Len(T) : T[i] = x})

\* the indices at which a maximal run of equal classification starts
RunStarts(S) == {i \in 1..Len(S) : i = 1 \/ S[i - 1].state # S[i].state}

\* the index at which the run that starts at lo ends
RunEnd(S, lo) ==
    CHOOSE hi \in lo..Len(S) :
        /\ \A i \in lo..hi : S[i].state = S[lo].state
        /\ hi = Len(S) \/ S[hi + 1].state # S[lo].state

\* the mean of the speeds of the samples lo..hi of S
MeanSpeed(S, lo, hi) ==
    Rat(SumSeq([i \in 1..(hi - lo + 1) |-> S[lo + i - 1].speed]), hi - lo + 1)

\* the offset as far from a as from b
HalfWay(a, b) == CHOOSE x \in Min2(a, b)..Max2(a, b) : x - a = b - x

\* the candidate the claim describes for the run of S that starts at lo
RunCandidate(S, lo) ==
    LET hi == RunEnd(S, lo)
    IN  [start_offset |-> IF lo = 1 THEN S[1].offset
                          ELSE HalfWay(S[lo - 1].offset, S[lo].offset),
         end_offset |-> IF hi = Len(S) THEN S[Len(S)].offset
                        ELSE HalfWay(S[hi].offset, S[hi + 1].offset),
         type |-> S[lo].state,
         avg_speed |-> MeanSpeed(S, lo, hi)]

\* the candidates the claim describes for the sorted samples S, in order
RunCandidates(S) ==
    LET starts == SortAscending(RunStarts(S))
    IN  [j \in 1..Len(starts) |-> RunCandidate(S, starts[j])]

\* the samples of entry k are those assigned to its edge, sorted by offset,
\* each coppered exactly when its speed is above 11
SortedAndClassified(k) ==
    LET S == byEdge[k].samples
    IN  /\ SameSamples(S, SamplesOf(k))
        /\ \A i \in 1..(Len(S) - 1) : S[i].offset <= S[i + 1].offset
        /\ \A i \in 1..Len(S) : (S[i].state = "coppered") <=> (S[i].speed > 11)

\* C18 (as stated; refuted): for every edge handled, the samples are sorted
\* by offset and classified by speed > 11, and the candidates are the
\* maximal runs of equal classification: from the smallest offset, to the
\* largest offset, with the midpoints as boundaries and the mean speed of
\* each run.
C18_CandidatesAreRuns ==
    \A k \in 1..Len(candidates) :
        /\ SortedAndClassified(k)
        /\ candidates[k] = RunCandidates(byEdge[k].samples)

\* C18 (what holds): the same, for the start, the type and the speed of
\* every candidate, and for the end of every candidate whose run ends past
\* its start.
C18_CandidatesAreRunsOfSomeLength ==
    \A k \in 1..Len(candidates) :
        LET runs == RunCandidates(byEdge[k].samples)
        IN  /\ SortedAndClassified(k)
            /\ Len(candidates[k]) = Len(runs)
            /\ \A j \in 1..Len(runs) :
                  /\ candidates[k][j].start_offset = runs[j].start_offset
                  /\ candidates[k][j].type = runs[j].type
                  /\ candidates[k][j].avg_speed = runs[j].avg_speed
                  /\ (runs[j].start_offset < runs[j].end_offset)
                        => candidates[k][j].end_offset = runs[j].end_offset

\* an edge handled with three samples given out of order, in two runs of
\* different lengths
C18_Witness ==
    /\ Len(candidates) > 0
    /\ Len(candidates[1]) = 2
    /\ Len(byEdge[1].samples) = 3
    /\ byEdge[1].samples # SamplesOf(1)
    /\ \A j \in 1..2 : candidates[1][j].start_offset < candidates[1][j].end_offset

----------------------------------------------------------------------------
(* C20: the edges no sample was assigned to.                                *)

\* out is the input edge in with nothing changed but a missing id filled in
SameButId(out, in) ==
    /\ out.from = in.from /\ out.to = in.to /\ out.distance = in.distance
    /\ out.routing_weight = in.routing_weight
    /\ out.segments = in.segments
    /\ out.total_copper_coverage = in.total_copper_coverage
    /\ out.geometry = in.geometry
    /\ out.external = in.external
    /\ out.id # None
    /\ (in.id # None) => out.id = in.id

\* an earlier edge of the graph has the from and to of edge i
HasEarlierTwin(i) ==
    \E j \in 1..(i - 1) :
        surveyGraph[j].from = surveyGraph[i].from /\ surveyGraph[j].to = surveyGraph[i].to

\* C20 (as stated; refuted): updatedEdges has one edge per edge of the graph,
\* in order, and every edge no sample was assigned to is its input edge with
\* nothing changed but a missing id filled in.
C20_UnsurveyedEdgesUnchanged ==
    (spc = "returned") =>
        /\ Len(sresult.updatedEdges) = Len(surveyGraph)
        /\ \A i \in 1..Len(surveyGraph) :
              /\ sresult.updatedEdges[i].from = surveyGraph[i].from
              /\ sresult.updatedEdges[i].to = surveyGraph[i].to
              /\ (i \notin Surveyed) => SameButId(sresult.updatedEdges[i], surveyGraph[i])

\* C20 (what holds): the same, for the edges that no earlier edge shares
\* from and to with.
C20_UnsurveyedEdgesWithoutTwinUnchanged ==
    (spc = "returned") =>
        /\ Len(sresult.updatedEdges) = Len(surveyGraph)
        /\ \A i \in 1..Len(surveyGraph) :
              /\ sresult.updatedEdges[i].from = surveyGraph[i].from
              /\ sresult.updatedEdges[i].to = surveyGraph[i].to
              /\ (i \notin Surveyed /\ ~HasEarlierTwin(i))
                    => SameButId(sresult.updatedEdges[i], surveyGraph[i])

\* a call that returns with one edge surveyed and another one, without id
\* and with another destination, left alone
C20_Witness ==
    /\ spc = "returned"
    /\ Cardinality(Surveyed) = 1
    /\ \E i \in 1..Len(surveyGraph) :
          /\ i \notin Surveyed /\ ~HasEarlierTwin(i) /\ i > 1
          /\ surveyGraph[i].id = None

----------------------------------------------------------------------------
(* C21: a survey applied a second time.                                     *)

\* the boundaries and the types of an optional segment list
Condition(segments) ==
    IF segments = None THEN None
    ELSE Some([j \in 1..Len(segments[1]) |->
                  [start_offset |-> segments[1][j].start_offset,
                   end_offset |-> segments[1][j].end_offset,
                   type |-> segments[1][j].type]])

\* edge i comes out of the call with the condition it went in with
KeepsCondition(i) ==
    /\ Condition(sresult.updatedEdges[i].segments) = Condition(surveyGraph[i].segments)
    /\ sresult.updatedEdges[i].total_copper_coverage = surveyGraph[i].total_copper_coverage

\* C21 (as stated; refuted): when reconcileSurvey returns from a graph whose
\* edges are the updatedEdges of an earlier call with the same survey and
\* threshold, every edge has the segment boundaries, the segment types and
\* the total_copper_coverage that the graph given to this call has.
C21_ReapplyKeepsCondition ==
    (spc = "returned" /\ Len(earlier) > 0) =>
        /\ Len(sresult.updatedEdges) = Len(surveyGraph)
        /\ \A i \in 1..Len(surveyGraph) : KeepsCondition(i)

\* C21 (what holds): the same, for the edges that no earlier edge shares
\* from and to with.
C21_ReapplyKeepsConditionWithoutTwin ==
    (spc = "returned" /\ Len(earlier) > 0) =>
        /\ Len(sresult.updatedEdges) = Len(surveyGraph)
        /\ \A i \in 1..Len(surveyGraph) : ~HasEarlierTwin(i) => KeepsCondition(i)

\* a second application that returns for an edge that had stored segments
\* before the first, was changed by the first, and was surveyed in two runs
C21_Witness ==
    /\ spc = "returned" /\ Len(earlier) > 0
    /\ Len(candidates) > 0 /\ Len(candidates[1]) = 2
    /\ \E k \in 1..Len(earlier[1].diffs) :
          /\ earlier[1].diffs[k].oldSegments # None
          /\ earlier[1].diffs[k].oldSegments # Some(earlier[1].diffs[k].newSegments)

----------------------------------------------------------------------------
(* C22: ties in dijkstra.                                                   *)

\* the place of node n in graph.nodes
PlaceOf(n) == CHOOSE i \in 1..Len(graph.nodes) : graph.nodes[i] = n

\* the places in graph.edges of the edges from u to n
ArcsBetween(u, n) ==
    {i \in 1..Len(graph.edges) : graph.edges[i].from = u /\ graph.edges[i].to = n}

\* what the claims take for the weight of the edge at place i
ArcWeight(i) ==
    IF graph.edges[i].routing_weight # NoNumber THEN graph.edges[i].routing_weight
    ELSE graph.edges[i].distance

\* the first of the lightest edges from u to n, by place in graph.edges
FirstLightest(u, n) ==
    CHOOSE i \in ArcsBetween(u, n) :
        \A j \in ArcsBetween(u, n) :
            ArcWeight(i) < ArcWeight(j) \/ (ArcWeight(i) = ArcWeight(j) /\ i <= j)

\* C22: every pass of the main loop that extracts a node extracts, of the
\* unsettled nodes at the least tentative distance, the one that comes first
\* in graph.nodes; a predecessor is replaced only together with a strictly
\* smaller distance, and the new predecessor is the extracted node by the
\* first of its lightest edges in graph.edges.
C22_FirstFoundTieBreak ==
    [][(dpc = "loop" /\ settled' # settled) =>
          LET u == settled'[Len(settled')]
          IN  /\ u \in SeqToSet(pq)
              /\ dist[u] # Infinity
              /\ \A v \in SeqToSet(pq) :
                    /\ dist[u] <= dist[v]
                    /\ (dist[v] = dist[u]) => PlaceOf(u) <= PlaceOf(v)
              /\ \A n \in DOMAIN prev :
                    (prev'[n] # prev[n]) =>
                        /\ dist'[n] < dist[n]
                        /\ prev'[n].from = u
                        /\ prev'[n].edgeId = graph.edges[FirstLightest(u, n)].id]_vars

\* two nodes at the same distance were extracted one after the other, the
\* second having had that distance before the first was extracted, and a
\* node got a new predecessor in place of a longer way
C22_Witness ==
    /\ dpc = "returned"
    /\ \E k \in 1..(Len(settled) - 1) :
          /\ dist[settled[k]] = dist[settled[k + 1]]
          /\ prev[settled[k + 1]] # Null
          /\ prev[settled[k + 1]].from # settled[k]
    /\ \E n \in DOMAIN prev :
          /\ prev[n] # Null
          /\ \E i \in ArcsBetween(source, n) : ArcWeight(i) > dist[n]

----------------------------------------------------------------------------
(* C23: termination of dijkstra.                                            *)

\* the place of node n in settled; 0 when n is not settled
SettledAt(n) ==
    IF n \in SeqToSet(settled) THEN CHOOSE k \in 1..Len(settled) : settled[k] = n ELSE 0

\* one pass of the main loop: it ends the loop or settles one more node, it
\* ends the loop when the target is settled, and it leaves the distance and
\* the predecessor of every settled node alone
SettlesOneMore ==
    (dpc = "loop") =>
        /\ dpc' \in {"loop", "reconstruct"}
        /\ (dpc' = "loop") =>
              /\ Len(settled') = Len(settled) + 1
              /\ Len(pq') = Len(pq) - 1
              /\ target \notin SeqToSet(settled')
        /\ (target \in SeqToSet(settled')) => dpc' = "reconstruct"
        /\ \A n \in SeqToSet(settled') : dist'[n] = dist[n] /\ prev'[n] = prev[n]

\* the predecessor of a node was settled before the node, if the node is
\* settled at all
PredecessorsSettledEarlier ==
    (dpc \in {"loop", "reconstruct", "returned"}) =>
        \A n \in DOMAIN prev :
            (prev[n] # Null) =>
                /\ SettledAt(prev[n].from) > 0
                /\ (SettledAt(n) > 0) => SettledAt(prev[n].from) < SettledAt(n)

\* a returned path starts at source, ends at target and visits no node twice
PathWalksBackToSource ==
    (dpc = "returned" /\ dresult.path # Null) =>
        LET ns == dresult.path.nodes
        IN  /\ ns[1] = source /\ ns[Len(ns)] = target
            /\ \A i, j \in 1..Len(ns) : (ns[i] = ns[j]) => i = j

\* C23: every call of dijkstra ends, by a return or by the throw for an
\* unknown node; every pass of the main loop settles one more node or ends
\* the loop, and ends it once the target is settled; what is recorded for a
\* settled node never changes; the predecessor links lead from each node to
\* nodes settled earlier, so the walk back from target visits no node twice
\* and ends at source.
C23_Terminates ==
    /\ <>(dpc \in {"returned", "threw"})
    /\ [][SettlesOneMore]_vars
    /\ [](PredecessorsSettledEarlier /\ PathWalksBackToSource)

\* a path of three nodes returned from a graph with a cycle of weight 0
C23_Witness ==
    /\ dpc = "returned" /\ dresult.path # Null
    /\ Len(dresult.path.nodes) = 3
    /\ \E i, j \in 1..Len(graph.edges) :
          /\ graph.edges[i].from = graph.edges[j].to
          /\ graph.edges[i].to = graph.edges[j].from
          /\ graph.edges[i].from # graph.edges[i].to
          /\ graph.edges[i].routing_weight = 0 /\ graph.edges[j].routing_weight = 0

----------------------------------------------------------------------------
(* C24: pointToSegmentDistance2D.  The definitions below state what the     *)
(* claim says of the arguments gpoint (p), gpoly[1] (a) and gpoly[2] (b).   *)

\* x clamped to [0, 1]
Clamped01(x) ==
    IF RatLess(x, RatInt(0)) THEN RatInt(0)
    ELSE IF RatLess(RatInt(1), x) THEN RatInt(1)
    ELSE x

\* the parameter of the foot of the perpendicular from p on the line a-b,
\* clamped; 0 when a and b coincide in X/Z
ClampedParameter(p, a, b) ==
    LET len2 == Sq(b[1] - a[1]) + Sq(b[3] - a[3])
    IN  IF len2 = 0 THEN RatInt(0)
        ELSE Clamped01(Rat((p[1] - a[1]) * (b[1] - a[1]) + (p[3] - a[3]) * (b[3] - a[3]), len2))

\* coordinate c (1 = X, 2 = Y, 3 = Z) of the point of a-b at parameter t
Along(a, b, t, c) == RatAdd(RatInt(a[c]), RatTimesInt(t, b[c] - a[c]))

\* the square of the planar distance from p to the point of a-b at parameter t
PlanarSqAt(p, a, b, t) ==
    LET dx == RatSub(RatInt(p[1]), Along(a, b, t, 1))
        dz == RatSub(RatInt(p[3]), Along(a, b, t, 3))
    IN  RatAdd(RatMul(dx, dx), RatMul(dz, dz))

\* t, the distance and the X/Z of the projected point are as the claim says,
\* and no quarter point of a-b is nearer to p
PlanarProjection(r, p, a, b) ==
    /\ r.t = ClampedParameter(p, a, b)
    /\ RatLeq(RatInt(0), r.t) /\ RatLeq(r.t, RatInt(1))
    /\ r.distSq = PlanarSqAt(p, a, b, r.t)
    /\ r.proj[1] = Along(a, b, r.t, 1) /\ r.proj[3] = Along(a, b, r.t, 3)
    /\ \A k \in 0..4 : RatLeq(r.distSq, PlanarSqAt(p, a, b, Rat(k, 4)))

\* C24 as stated: pointToSegmentDistance2D(p, a, b) returns t clamped to
\* [0, 1] (0 when a and b coincide in X/Z), the planar distance from p to the
\* point of a-b at t, and a projected point with the X/Z of that point and a
\* vertical coordinate interpolated between a's and b's at t.
C24_VerticalInterpolated ==
    (gpc = "segment") =>
        /\ PlanarProjection(gresult, gpoint, gpoly[1], gpoly[2])
        /\ RatInt(gresult.proj[2]) = Along(gpoly[1], gpoly[2], gresult.t, 2)

\* C24, what holds: t, the planar distance and the X/Z of the projected point
\* are as stated; the vertical coordinate of the projected point is a's at
\* every t, which is the interpolated value only when t = 0 or a and b are
\* equally high.
C24_VerticalOfA ==
    (gpc = "segment") =>
        /\ PlanarProjection(gresult, gpoint, gpoly[1], gpoly[2])
        /\ gresult.proj[2] = gpoly[1][2]
        /\ (gresult.t = RatInt(0) \/ gpoly[1][2] = gpoly[2][2]) =>
              RatInt(gresult.proj[2]) = Along(gpoly[1], gpoly[2], gresult.t, 2)

\* the foot of the perpendicular falls inside a slanted segment, off p
C24_Witness ==
    /\ gpc = "segment"
    /\ RatLess(RatInt(0), gresult.t) /\ RatLess(gresult.t, RatInt(1))
    /\ RatLess(RatInt(0), gresult.distSq)
    /\ gpoly[1][1] # gpoly[2][1] /\ gpoly[1][3] # gpoly[2][3]
    /\ gresult.t[2] > 2

----------------------------------------------------------------------------
(* C25: projectPointOntoPolyline.  Segment k (from 0) of poly runs from     *)
(* poly[k + 1] to poly[k + 2].                                              *)

\* the square of the planar distance from p to segment k of poly
SegmentSq(poly, p, k) ==
    PlanarSqAt(p, poly[k + 1], poly[k + 2],
               ClampedParameter(p, poly[k + 1], poly[k + 2]))

\* the planar length of segment k of a polyline that runs along the axes
SegmentLength(poly, k) ==
    Abs(poly[k + 2][1] - poly[k + 1][1]) + Abs(poly[k + 2][3] - poly[k + 1][3])

\* the planar length of the first k segments of poly
RECURSIVE LengthBefore(_, _)
LengthBefore(poly, k) ==
    IF k = 0 THEN 0 ELSE LengthBefore(poly, k - 1) + SegmentLength(poly, k - 1)

\* C25: for a polyline of at least 2 points projectPointOntoPolyline returns
\* the least planar distance from p to any segment, the lowest index of a
\* segment at that distance, the parameter t on that segment, and the offset
\* that is the length of the earlier segments plus t times the length of the
\* chosen one, which lies between 0 and the length of the polyline.
C25_NearestFirstSegment ==
    (gpc = "polyline" /\ Len(gpoly) >= 2) =>
        LET ks == 0..(Len(gpoly) - 2)
            k == gresult.segIndex
        IN  /\ k \in ks
            /\ \A j \in ks : RatLeq(gresult.distSq, SegmentSq(gpoly, gpoint, j))
            /\ gresult.distSq = SegmentSq(gpoly, gpoint, k)
            /\ \A j \in ks : (SegmentSq(gpoly, gpoint, j) = gresult.distSq) => k <= j
            /\ gresult.t = ClampedParameter(gpoint, gpoly[k + 1], gpoly[k + 2])
            /\ gresult.offset =
                  RatAdd(RatInt(LengthBefore(gpoly, k)),
                         RatTimesInt(gresult.t, SegmentLength(gpoly, k)))
            /\ RatLeq(RatInt(0), gresult.offset)
            /\ RatLeq(gresult.offset, RatInt(LengthBefore(gpoly, Len(gpoly) - 1)))

\* p is equally far from both segments of a bent polyline, and off it
C25_Witness ==
    /\ gpc = "polyline" /\ Len(gpoly) = 3
    /\ SegmentLength(gpoly, 0) > 0 /\ SegmentLength(gpoly, 1) > 0
    /\ gpoly[1][1] # gpoly[3][1] /\ gpoly[1][3] # gpoly[3][3]
    /\ SegmentSq(gpoly, gpoint, 0) = SegmentSq(gpoly, gpoint, 1)
    /\ RatLess(RatInt(0), gresult.distSq)
    /\ gresult.segIndex = 0
    /\ RatLess(RatInt(0), gresult.offset)

----------------------------------------------------------------------------
(* C26: validateRouterLayout and the order of its input.                    *)

\* the ways to reorder n things
Orders(n) == {f \in [1..n -> 1..n] : \A i, j \in 1..n : (f[i] = f[j]) => i = j}

\* the exit e with its onedest_args in every order
ArgOrders(e) ==
    {[e EXCEPT !.onedest_args = [i \in 1..Len(e.onedest_args) |-> e.onedest_args[f[i]]]] :
        f \in Orders(Len(e.onedest_args))}

\* the lists that take their i-th element from the i-th set of sets
RECURSIVE Picks(_)
Picks(sets) ==
    IF sets = <<>> THEN {<<>>}
    ELSE {<<h>> \o t : h \in Head(sets), t \in Picks(Tail(sets))}

\* the list ex with its exits in every order and the arguments of every exit
\* in every order
Reorderings(ex) ==
    UNION {Picks([i \in 1..Len(ex) |-> ArgOrders(ex[f[i]])]) : f \in Orders(Len(ex))}

\* C26: validateRouterLayout returns the same status for the exits in every
\* order and with the arguments of each exit in every order.
C26_StatusOrderFree ==
    (rpc = "returned") =>
        \A q \in Reorderings(exits) : validateRouterLayout(q).status = rresult.status

\* a conflict among three exits, one with two arguments, that another order
\* of the input reports as another conflict
C26_Witness ==
    /\ rpc = "returned" /\ rresult.status = "CONFLICT_DETECTED"
    /\ Len(exits) = 3
    /\ \E i \in 1..3 : Len(exits[i].onedest_args) = 2
                         /\ exits[i].onedest_args[1] # exits[i].onedest_args[2]
    /\ \E q \in Reorderings(exits) :
          LET r == validateRouterLayout(q)
          IN  r.conflict.argA # rresult.conflict.argA \/ r.conflict.argB # rresult.conflict.argB

----------------------------------------------------------------------------
(* Claims about the editor's history.  lastAction is the action dispatched  *)
(* last and before the state it was dispatched in.                          *)

\* the actions that edit the graph
EditTypes ==
    {"MERGE_GRAPH", "ADD_NODE", "UPDATE_NODE", "MOVE_NODES", "DELETE_NODE",
     "ADD_EDGE", "UPDATE_EDGE", "DELETE_EDGE"}

\* the action names an id that is no node, or no edge, of the graph g
NamesAbsentId(action, g) ==
    \/ action.type \in {"UPDATE_NODE", "DELETE_NODE"} /\ action.id \notin DOMAIN g.nodes
    \/ action.type \in {"UPDATE_EDGE", "DELETE_EDGE"} /\ action.id \notin DOMAIN g.edges

\* C27: from a state with a non-empty past UNDO then REDO gives the same
\* past, present and future back, from a state with a non-empty future REDO
\* then UNDO does, and after an edit that was accepted UNDO makes present the
\* graph that was present before the edit.
C27_UndoRedoInverse ==
    (epc = "editing") =>
        /\ (Len(past) > 0) =>
              reducer(reducer(State, [type |-> "UNDO"]), [type |-> "REDO"]) = State
        /\ (Len(future) > 0) =>
              reducer(reducer(State, [type |-> "REDO"]), [type |-> "UNDO"]) = State
        /\ (lastAction.type = "REDO" /\ before.future # <<>>) =>
              reducer(State, [type |-> "UNDO"]) = before
        /\ (lastAction.type = "UNDO" /\ before.past # <<>>) =>
              reducer(State, [type |-> "REDO"]) = before
        /\ (lastAction.type \in EditTypes /\ ~NamesAbsentId(lastAction, before.present)) =>
              reducer(State, [type |-> "UNDO"]).present = before.present

\* an UNDO, dispatched after an edit with snapshots on both sides, that a REDO
\* takes back
C27_Witness ==
    /\ epc = "editing"
    /\ lastAction.type = "UNDO"
    /\ Len(before.past) > 0 /\ Len(before.future) > 0
    /\ present # before.present
    /\ future[1] # future[2]
    /\ reducer(State, [type |-> "REDO"]) = before

\* C28: in every state the editor can reach, past.length + future.length is
\* at most MAX_HISTORY (50), and an edit made with MAX_HISTORY snapshots in
\* past drops the oldest of them.
C28_HistoryBounded ==
    (epc = "editing") =>
        /\ Len(past) + Len(future) <= MAX_HISTORY
        /\ (lastAction.type \in EditTypes /\ ~NamesAbsentId(lastAction, before.present)) =>
              /\ future = <<>>
              /\ past = IF Len(before.past) < MAX_HISTORY
                        THEN Append(before.past, before.present)
                        ELSE Append(Tail(before.past), before.present)

\* an edit made with 50 snapshots in past, the oldest of which is gone
C28_Witness ==
    /\ epc = "editing"
    /\ lastAction.type = "UPDATE_NODE"
    /\ Len(before.past) = MAX_HISTORY /\ Len(past) = MAX_HISTORY
    /\ before.past[1] # before.past[2]
    /\ past[1] = before.past[2]

\* the actions C29 lists as unable to apply in the state s
CannotApply(action, s) ==
    \/ action.type = "UNDO" /\ s.past = <<>>
    \/ action.type = "REDO" /\ s.future = <<>>
    \/ NamesAbsentId(action, s.present)

----------------------------------------------------------------------------
(* C30: the state of the OAuth message.                                     *)

\* C30 as stated: the approve flow POSTs to the worker only with the code of
\* a message whose state is the state generated for that flow; a message with
\* another state, with none, or of an earlier or a foreign flow causes no POST.
C30_StateOfOwnFlow ==
    (upc = "posting") =>
        /\ usedMessage # None
        /\ usedMessage[1].state = Some(pkceState)

\* C30, what holds: the approve flow POSTs to the worker only with a message
\* of type onedest_oauth that carries a code; the state of the message may be
\* any, or missing.
C30_CodeOfAnyState ==
    (upc = "posting") =>
        /\ posted # None /\ usedMessage # None
        /\ usedMessage[1].type = "onedest_oauth"
        /\ usedMessage[1].code # None
        /\ usedMessage[1].state \in {None} \cup {Some(k) : k \in 0..MaxFlows}

\* the second flow POSTs with the code of a message that carries its state
C30_Witness ==
    /\ upc = "posting" /\ pkceState = 2
    /\ usedMessage # None
    /\ usedMessage[1].state = Some(pkceState)

====
